---- MODULE Spec2Model ----
(***************************************************************************)
(* TTB COLA scraper & sync service: the sync-strategy engine               *)
(* (src/sync_strategy.py) driving the Airtable storage adapter             *)
(* (src/adapters.py), and the two entry points (src/main.py,               *)
(* src/api/cron.py).                                                       *)
(*                                                                         *)
(* An identifier (TTBItem.ttb_id) is a Python str.  It is modelled as the  *)
(* sequence of its characters; a character is a number: 0..9 is the digit, *)
(* a larger number a character that is no digit.  "0012" is <<0,0,1,2>>.   *)
(* The adapter is modelled with fetch_documents = False                    *)
(* (create_items -> _create_items_sync, update_item -> _update_item_sync). *)
(*                                                                         *)
(* Two more components are modelled, each under a specification of its     *)
(* own: the paginated source client TTBScraper.scrape() (src/scraper.py,   *)
(* ScraperSpec) and the document fetcher                                   *)
(* ColaDocumentFetcher.fetch_document_pdf()                                *)
(* (src/cola_document_fetcher.py, FetcherSpec).  While one component       *)
(* runs, the variables of the others keep their initial values.            *)
(***************************************************************************)
EXTENDS Integers, Sequences, FiniteSets, TLC

\* ------------------------------------------------------------------ bounds
\* longest list scrape() returns
MaxItems == 2
\* number of runs (launches of an entry point, calls of sync()) in one behaviour
MaxRuns == 2
\* number of storage requests that fail in one behaviour
MaxFailures == 1
\* largest max_retries a fetch_document_pdf() call is given
MaxRetries == 2

\* -------------------------------------------------------------- constants
\* Python None, as the value of the "TTB ID" field
None == -1
\* Airtable batch API accepts max 10 records at a time
batch_size == 10

\* the identifiers the source may list: "1", "2", "01"
Ids == { <<1>>, <<2>>, <<0, 1>> }
\* the "TTB ID" numbers of records already stored when the behaviour starts
StoredNumbers == {2, 3}

\* ----------------------------------------------------- pure helper functions
RECURSIVE DigitsValue(_)
\* value of a string of digits, most significant first
DigitsValue(s) ==
    IF s = <<>> THEN 0
    ELSE 10 * DigitsValue(SubSeq(s, 1, Len(s) - 1)) + s[Len(s)]

\* int(item.ttb_id) under try/except (ValueError, TypeError): the number the
\* digits denote, leading zeros dropped; None when the string is no number.
int(s) ==
    IF s = <<>> \/ (\E i \in DOMAIN s : s[i] \notin 0..9)
    THEN None
    ELSE DigitsValue(s)

RECURSIVE str(_)
\* str(n) of a non-negative int: its decimal digits, no leading zero
str(n) ==
    IF n < 10 THEN <<n>>
    ELSE Append(str(n \div 10), n % 10)

\* Python truthiness of a "TTB ID" field value: None and 0 are falsy
Truthy(v) == v # None /\ v # 0

\* TTBItem: the identifier and the rest of the fields (data)
Item(id, d) == [ttb_id |-> id, data |-> d]

\* AirtableAdapter._item_to_record: "TTB ID" is int(ttb_id), "Deprecated" is
\* False, the other fields are copied.
item_to_record(item) ==
    [ttb |-> int(item.ttb_id), deprecated |-> FALSE, data |-> item.data]

\* AirtableAdapter.get_existing_ids, the try branch:
\* {str(r["TTB ID"]) for r in records if r["TTB ID"]}
get_existing_ids(tbl) ==
    { str(tbl[i].ttb) : i \in { j \in DOMAIN tbl : Truthy(tbl[j].ttb) } }

\* scraped_ids = {item.ttb_id for item in items}
scraped_ids_of(its) == { its[i].ttb_id : i \in DOMAIN its }

\* Mutant: the filter keeps the items that already exist
new_items_inverted(its, existing) ==
    SelectSeq(its, LAMBDA it : it.ttb_id \in existing)

\* Mutant: no filter, every scraped item is created
new_items_unfiltered(its, existing) == its

\* new_items = [item for item in items if item.ttb_id not in existing_ids]
new_items_of(its, existing) ==
    SelectSeq(its, LAMBDA it : it.ttb_id \notin existing)

\* Mutant: the number of new items is reported as the number skipped
skipped_count_new(its, new_its) == Len(new_its)

\* skipped_count = len(items) - len(new_items)
skipped_count_of(its, new_its) == Len(its) - Len(new_its)

\* Mutant: the deprecation set is computed the wrong way round
deprecated_ids_reversed(existing, scraped) == scraped \ existing

\* deprecated_ids = existing_ids - scraped_ids
deprecated_ids_of(existing, scraped) == existing \ scraped

\* Mutant: every scraped item is put on the update list
existing_items_all(its, existing) == its

\* existing_items of FullSyncStrategy.sync: the items whose id is in existing_ids
existing_items_of(its, existing) ==
    SelectSeq(its, LAMBDA it : it.ttb_id \in existing)

\* table.all(formula="{TTB ID} = <n>"): the record ids (indices) that match
find_by_ttb_id(tbl, n) == { i \in DOMAIN tbl : tbl[i].ttb = n }

Min(S) == CHOOSE x \in S : \A y \in S : x <= y

RECURSIVE SeqOfSet(_)
\* the elements of a finite set of numbers, ascending
SeqOfSet(S) == IF S = {} THEN <<>> ELSE <<Min(S)>> \o SeqOfSet(S \ {Min(S)})

VARIABLES
    source,        \* the identifiers DataSource.scrape() lists now, in order
    table,         \* the Airtable table: a list of records
    launch,        \* the last entry-point launch (main / run_sync_job)
    strategy,      \* the strategy whose sync() is running or ran last
    pc,            \* position inside sync()
    items,         \* sync(): items
    existing_ids,  \* sync(): existing_ids
    todo,          \* FullSyncStrategy.sync(): existing_items not yet updated
    counts,        \* sync(): created_count, updated_count, ...
    stats,         \* the dictionary sync() returned
    calls,         \* history: the collaborator calls of this run, in order
    table0,        \* history: the table when this run started
    clean,         \* history: no request of this run failed
    prev,          \* history: the run before this one
    runs,          \* number of runs started
    failures       \* number of requests that failed

vars == << source, table, launch, strategy, pc, items, existing_ids,
           todo, counts, stats, calls, table0, clean, prev, runs, failures >>

\* TTBScraper.scrape()
VARIABLES
    s_pc,          \* position inside scrape()
    all_results,   \* scrape(): all_results
    page,          \* scrape(): page
    soup,          \* scrape(): the response of the last page request
    new_items,     \* scrape(): new_items not yet enriched
    duplicates,    \* scrape(): duplicates
    responses,     \* history: the page responses of this scrape, with what
                   \* had been collected when each was fetched
    events         \* history: the HTTP requests and sleeps of this scrape

scraperVars == << s_pc, all_results, page, soup, new_items, duplicates, responses, events >>

\* ColaDocumentFetcher.fetch_document_pdf()
VARIABLES
    f_pc,          \* position inside fetch_document_pdf() / _handle_captcha()
    browser,       \* self._browser is not None (connect_browser() was called)
    session,       \* fetch_document_pdf(): use_persistent_session
    max_retries,   \* fetch_document_pdf(): max_retries
    attempt,       \* _handle_captcha(): attempt
    shown,         \* what the browser page shows
    pending,       \* the value of the return statement reached inside the try
    result,        \* what fetch_document_pdf() gave its caller
    track,         \* history: the fetch states passed, in order
    tally,         \* history: detection checks, solver calls, submits, what
                   \* the first detection check after navigation saw, and
                   \* the step of the fetch that raised
    held           \* pages: pages created whose close() was not called yet;
                   \* temp: the parts of this call's temporary session whose
                   \* close() / stop() was not called yet

fetcherVars == << f_pc, browser, session, max_retries, attempt, shown, pending,
                  result, track, tally, held >>

\* AirtableAdapter with document fetching: create_items, delete_all,
\* update_item, _has_fields_changed
VARIABLES
    a_pc,          \* position inside the adapter call
    a_call,        \* the call: operation, number of items, fetch_documents,
                   \* the incoming item of update_item
    a_loop,        \* i: start of the batch; idx: item of the batch whose
                   \* document is next; count: created_count / deleted_count
    a_store,       \* storage: number of records of the table, and the
                   \* record update_item works on
    a_log,         \* history: the batches sent, browser connections opened
                   \* and closed, document fetches, uploads, and the record
                   \* as it was stored when update_item was called
    a_return       \* what the call gave its caller

adapterVars == << a_pc, a_call, a_loop, a_store, a_log, a_return >>

\* api/cron.py: the sync jobs started by the triggers
VARIABLES
    jobs,          \* per job: who started it and where it is
    users          \* the jobs that are inside "with get_http_client()"

triggerVars == << jobs, users >>

\* TwoCaptchaSolver.solve_image_captcha()
VARIABLES
    v_pc,          \* position inside solve_image_captcha()
    v_attempt,     \* attempt of "for attempt in range(max_attempts)"
    v_log,         \* history: the image given, polls made, seconds slept,
                   \* the last poll response
    v_result       \* what solve_image_captcha() gave its caller

solverVars == << v_pc, v_attempt, v_log, v_result >>

\* ColaDocumentFetcher._connect_to_browserless_with_retry()
VARIABLES
    c_pc,          \* position inside _connect_to_browserless_with_retry()
    c_call,        \* the arguments max_retries and initial_timeout
    c_attempt,     \* attempt of "for attempt in range(1, max_retries + 1)"
    c_log,         \* history: per attempt its number, its timeout, whether it
                   \* connected, and the seconds waited after it
    c_result       \* what the call gave its caller

connectVars == << c_pc, c_call, c_attempt, c_log, c_result >>

\* no page response yet
NoResponse == [status |-> 0, rows |-> <<>>, divs |-> <<>>]

\* scrape() is not running
ScraperIdle ==
    /\ s_pc = "idle"
    /\ all_results = <<>>
    /\ page = 1
    /\ soup = NoResponse
    /\ new_items = <<>>
    /\ duplicates = 0
    /\ responses = <<>>
    /\ events = <<>>

\* no page open, no temporary session
NoneHeld == [pages |-> 0, temp |-> {}]

NoTally == [checks |-> 0, solved |-> 0, submits |-> 0, first |-> "none", broke |-> "none"]

\* ColaDocumentFetcher.__init__: no browser session, no fetch running
FetcherIdle ==
    /\ f_pc = "idle"
    /\ browser = FALSE
    /\ session = FALSE
    /\ max_retries = 0
    /\ attempt = 0
    /\ shown = "blank"
    /\ pending = "none"
    /\ result = "none"
    /\ track = <<>>
    /\ tally = NoTally
    /\ held = NoneHeld

\* a record as the adapter calls see it: "Brand Name" stands for the text
\* fields of the record ("none" is Python None or a missing key), then
\* "URL", "Deprecated", and the number of attachments in "COLA" and
\* "Latest COLA"
NoRec == [brand |-> "none", url |-> "none", deprecated |-> FALSE, cola |-> 0, latest |-> 0]
NoItem == [brand |-> "none", url |-> "none"]
NoCall == [op |-> "none", n |-> 0, docs |-> FALSE, item |-> NoItem]
NoLoop == [i |-> 0, idx |-> 0, count |-> 0, raising |-> FALSE]
NoLog == [batches |-> <<>>, opens |-> 0, closes |-> 0, fetches |-> 0, uploads |-> 0,
          before |-> [records |-> 0, rec |-> NoRec], lookup |-> "none"]
NoReturn == [kind |-> "none", value |-> 0]

\* no adapter call was made
AdapterIdle ==
    /\ a_pc = "idle"
    /\ a_call = NoCall
    /\ a_loop = NoLoop
    /\ a_store = [records |-> 0, rec |-> NoRec]
    /\ a_log = NoLog
    /\ a_return = NoReturn

\* number of sync jobs one behaviour starts
MaxJobs == 3

\* no trigger has fired
TriggerIdle ==
    /\ jobs = [j \in 1..MaxJobs |-> [via |-> "none", pc |-> "none"]]
    /\ users = {}

NoPolls == [image |-> "none", polls |-> 0, slept |-> 0, last |-> "none"]

\* solve_image_captcha() was not called
SolverIdle ==
    /\ v_pc = "idle"
    /\ v_attempt = 0
    /\ v_log = NoPolls
    /\ v_result = "none"

\* _connect_to_browserless_with_retry() was not called
ConnectIdle ==
    /\ c_pc = "idle"
    /\ c_call = [max_retries |-> 0, initial_timeout |-> 0]
    /\ c_attempt = 0
    /\ c_log = <<>>
    /\ c_result = "none"

\* ------------------------------------------------------------ entry points
\* TTBScraper.__init__(self, product_name, delay_between_requests)
TTBScraperParams == {"product_name", "delay_between_requests"}
\* main(): TTBScraper(product_name=, vendor_code=, delay_between_requests=)
MainKwargs == {"product_name", "vendor_code", "delay_between_requests"}
\* run_sync_job(): TTBScraper(product_names=, delay_between_requests=)
CronKwargs == {"product_names", "delay_between_requests"}

\* Calling TTBScraper(**kwargs): TRUE when the object is constructed, FALSE
\* when Python raises TypeError (unexpected keyword argument).
TTBScraper_init(kwargs) == kwargs \subseteq TTBScraperParams

\* values of the SYNC_STRATEGY and CONFIRM_REPLACE environment variables
EnvStrategy == {"unset", "incremental", "full", "replace", "REPLACE", "other"}
EnvConfirm == {"unset", "true", "TRUE", "false", "yes"}

\* os.getenv(name, default)
getenv(value, default) == IF value = "unset" THEN default ELSE value

\* str.lower() on the values above
lower(s) ==
    CASE s = "REPLACE" -> "replace"
      [] s = "TRUE" -> "true"
      [] OTHER -> s

Strategies == {"incremental", "full", "replace"}

\* Mutant: the replace branch does not look at CONFIRM_REPLACE
main_select_unconfirmed(mode, confirm) ==
    LET sync_mode == lower(getenv(mode, "incremental")) IN
    IF sync_mode \in Strategies THEN sync_mode ELSE "unknown"

\* main(), "Determine sync strategy from environment variable": the strategy
\* constructed, "refused" (replace without CONFIRM_REPLACE=true) or "unknown".
main_select(mode, confirm) ==
    LET sync_mode == lower(getenv(mode, "incremental")) IN
    IF sync_mode = "incremental" THEN "incremental"
    ELSE IF sync_mode = "full" THEN "full"
    ELSE IF sync_mode = "replace" THEN
        IF lower(getenv(confirm, "false")) # "true" THEN "refused" ELSE "replace"
    ELSE "unknown"

\* run_sync_job(), "Determine sync strategy": full, else incremental
cron_select(mode) ==
    LET sync_mode == lower(getenv(mode, "incremental")) IN
    IF sync_mode = "full" THEN "full" ELSE "incremental"

\* main() up to strategy.sync(): the scraper is constructed first, inside the
\* try; a TypeError there is caught by "except Exception" and ends in
\* sys.exit(1) ("fatal") before the strategy is chosen.
main_outcome(mode, confirm) ==
    IF ~TTBScraper_init(MainKwargs) THEN "fatal" ELSE main_select(mode, confirm)

\* run_sync_job() up to strategy.sync(): the same, the exception is logged
cron_outcome(mode) ==
    IF ~TTBScraper_init(CronKwargs) THEN "fatal" ELSE cron_select(mode)

\* a launch: the entry point, whether SYNC_STRATEGY names replace, whether
\* CONFIRM_REPLACE is true (both after .lower()), the strategy the entry
\* point's selection code yields for this environment, and how the launch
\* went on
Launch(entry, mode, confirm, sel, o) ==
    [entry |-> entry,
     replace |-> (lower(getenv(mode, "incremental")) = "replace"),
     confirmed |-> (lower(getenv(confirm, "false")) = "true"),
     selects |-> sel,
     outcome |-> o]

NoLaunch == [entry |-> "none", replace |-> FALSE, confirmed |-> FALSE,
             selects |-> "none", outcome |-> "none"]
NoStats == [none |-> 0]
NoCounts == [created |-> 0, updated |-> 0, deprecated |-> 0, deleted |-> 0]
NoPrev == [strategy |-> "none", result |-> "none", clean |-> FALSE, created |-> {},
           unchanged |-> FALSE]

\* the lists of identifiers a source may hold
SourceLists == UNION { [1..n -> Ids] : n \in 0..MaxItems }

\* scrape(): TTBItem instances are created fresh per scrape pass; their other
\* fields (data) are those of the pass, run number r
Scraped(src, r) == [i \in DOMAIN src |-> Item(src[i], r)]

\* s without its i-th element
RemoveAt(s, i) == SubSeq(s, 1, i - 1) \o SubSeq(s, i + 1, Len(s))

\* a table holding one live record for every number of S
TableOf(S) ==
    [i \in 1..Cardinality(S) |-> [ttb |-> SeqOfSet(S)[i], deprecated |-> FALSE, data |-> 0]]

Init ==
    /\ source \in SourceLists
    /\ table \in { TableOf({}), TableOf(StoredNumbers) }
    /\ launch = NoLaunch
    /\ strategy = "none"
    /\ pc = "idle"
    /\ items = <<>>
    /\ existing_ids = {}
    /\ todo = <<>>
    /\ counts = NoCounts
    /\ stats = NoStats
    /\ calls = <<>>
    /\ table0 = table
    /\ clean = TRUE
    /\ prev = NoPrev
    /\ runs = 0
    /\ failures = 0
    /\ ScraperIdle
    /\ FetcherIdle
    /\ AdapterIdle
    /\ TriggerIdle
    /\ SolverIdle
    /\ ConnectIdle

\* Mutant: the replace strategy scrapes before it deletes
FirstPc_scrape(s) == "scrape"

\* first statement of each sync()
FirstPc(s) == IF s = "replace" THEN "delete_all" ELSE "scrape"

\* strategy.sync() is entered: the run's locals are fresh
Enter(s, l) ==
    /\ runs < MaxRuns
    /\ runs' = runs + 1
    /\ launch' = l
    /\ strategy' = s
    /\ pc' = FirstPc(s)
    /\ items' = <<>>
    /\ existing_ids' = {}
    /\ todo' = <<>>
    /\ counts' = NoCounts
    /\ stats' = NoStats
    /\ calls' = <<>>
    /\ table0' = table
    /\ clean' = TRUE
    /\ UNCHANGED << source, table, prev, failures >>
    /\ UNCHANGED << scraperVars, fetcherVars, adapterVars, triggerVars, solverVars, connectVars >>

\* the launch ends before any strategy is built: sync() is never called
Exit(l) ==
    /\ runs < MaxRuns
    /\ runs' = runs + 1
    /\ launch' = l
    /\ strategy' = "none"
    /\ pc' = "exited"
    /\ items' = <<>>
    /\ existing_ids' = {}
    /\ todo' = <<>>
    /\ counts' = NoCounts
    /\ stats' = NoStats
    /\ calls' = <<>>
    /\ table0' = table
    /\ clean' = TRUE
    /\ UNCHANGED << source, table, prev, failures >>
    /\ UNCHANGED << scraperVars, fetcherVars, adapterVars, triggerVars, solverVars, connectVars >>

\* python main.py
Main ==
    /\ pc = "idle"
    /\ \E mode \in EnvStrategy, confirm \in EnvConfirm :
         LET o == main_outcome(mode, confirm)
             l == Launch("main", mode, confirm, main_select(mode, confirm), o)
         IN IF o \in Strategies THEN Enter(o, l) ELSE Exit(l)

\* GET/POST /api/cron (start_background_sync) or the scheduled job: run_sync_job()
RunSyncJob ==
    /\ pc = "idle"
    /\ \E mode \in EnvStrategy, confirm \in EnvConfirm :
         LET o == cron_outcome(mode)
             l == Launch("cron", mode, confirm, cron_select(mode), o)
         IN IF o \in Strategies THEN Enter(o, l) ELSE Exit(l)

\* A caller builds XSyncStrategy(data_source, storage_target) itself and
\* calls sync() (SyncStrategy.__init__ takes any DataSource / StorageTarget).
StartSync ==
    /\ pc = "idle"
    /\ \E s \in Strategies : Enter(s, NoLaunch)

\* between two runs the source's result set changes: an identifier vanishes
\* from it or one is added to it
SourceChange ==
    /\ pc = "idle"
    /\ prev.unchanged
    /\ \/ \E i \in DOMAIN source : source' = RemoveAt(source, i)
       \/ /\ Len(source) < MaxItems
          /\ \E id \in Ids : source' = Append(source, id)
    /\ prev' = [prev EXCEPT !.unchanged = FALSE]
    /\ UNCHANGED << table, launch, strategy, pc, items, existing_ids, todo, counts,
                    stats, calls, table0, clean, runs, failures >>
    /\ UNCHANGED << scraperVars, fetcherVars, adapterVars, triggerVars, solverVars, connectVars >>

\* ------------------------------------------------------------ the adapter
Call(op, its, ids, ok) == [op |-> op, items |-> its, ids |-> ids, ok |-> ok]

\* range(0, len(items), batch_size): the number of batches
NumBatches(n) == (n + batch_size - 1) \div batch_size

\* the first k batches of a list
FirstBatches(s, k) == SubSeq(s, 1, IF k * batch_size < Len(s) THEN k * batch_size ELSE Len(s))

\* records_data = [self._item_to_record(item) for item in batch]
RecordsData(its) == [i \in DOMAIN its |-> item_to_record(its[i])]

\* Mutant: the record found is the first one of the table, whatever the formula
first_match_any(tbl, n) == IF tbl = <<>> THEN {} ELSE {1}

\* existing_records[0]: the first record the formula matches, as a set of
\* at most one record id
first_match(tbl, n) ==
    IF find_by_ttb_id(tbl, n) = {} THEN {} ELSE { Min(find_by_ttb_id(tbl, n)) }

\* Mutant: the record is found but the flag is not written
MarkOne_unsaved(tbl, id) == tbl

\* mark_as_deprecated, one ttb_id whose request does not raise: the record
\* found by formula "{TTB ID} = <ttb_id>" gets "Deprecated": True
MarkOne(tbl, id) ==
    [i \in DOMAIN tbl |->
        IF i \in first_match(tbl, int(id)) THEN [tbl[i] EXCEPT !.deprecated = TRUE]
        ELSE tbl[i]]

RECURSIVE MarkAll(_, _)
\* the for loop of mark_as_deprecated over the ids whose requests succeed
MarkAll(tbl, ids) ==
    IF ids = {} THEN tbl
    ELSE LET id == CHOOSE x \in ids : TRUE
         IN MarkAll(MarkOne(tbl, id), ids \ {id})

\* marked_count: the ids for which a record was found and updated
Marked(tbl, ids) == { id \in ids : first_match(tbl, int(id)) # {} }

\* n more requests fail
MayFail(n) ==
    /\ failures + n <= MaxFailures
    /\ failures' = failures + n

\* ------------------------------------------------------- sync(), step by step
\* Mutant: an empty scrape result is handled like any other
no_items_never(its) == FALSE

\* "if not items"
no_items(its) == its = <<>>

\* items = self.data_source.scrape(); "if not items: return" of the
\* incremental and the full strategy. scrape() returns the items of the pages
\* it fetched: all n = Len(source) of them, or fewer when a page request
\* answered with a status other than 200 and the loop broke there.
Scrape ==
    /\ pc = "scrape"
    /\ \E n \in 0..Len(source) :
         /\ IF n < Len(source)
            THEN MayFail(1) /\ clean' = FALSE
            ELSE UNCHANGED << failures, clean >>
         /\ items' = Scraped(SubSeq(source, 1, n), runs)
         /\ calls' = Append(calls, Call("scrape", <<>>, {}, n = Len(source)))
         /\ IF strategy = "replace" THEN
                 /\ pc' = "create_items"
                 /\ stats' = stats
            ELSE IF no_items(Scraped(SubSeq(source, 1, n), runs)) THEN
                 /\ pc' = "done"
                 /\ stats' = IF strategy = "incremental"
                             THEN [total |-> 0, new |-> 0, skipped |-> 0, deprecated |-> 0]
                             ELSE [total |-> 0, new |-> 0, updated |-> 0]
            ELSE
                 /\ pc' = "get_existing_ids"
                 /\ stats' = stats
    /\ UNCHANGED << source, table, launch, strategy, existing_ids, todo, counts,
                    table0, prev, runs >>
    /\ UNCHANGED << scraperVars, fetcherVars, adapterVars, triggerVars, solverVars, connectVars >>

\* existing_ids = self.storage_target.get_existing_ids(); the adapter returns
\* set() when the read raises
GetExistingIds ==
    /\ pc = "get_existing_ids"
    /\ \E ok \in BOOLEAN :
         /\ MayFail(IF ok THEN 0 ELSE 1)
         /\ existing_ids' = IF ok THEN get_existing_ids(table) ELSE {}
         /\ calls' = Append(calls, Call("get_existing_ids", <<>>, {}, ok))
         /\ clean' = (clean /\ ok)
    /\ pc' = "create_items"
    /\ UNCHANGED << source, table, launch, strategy, items, todo, counts, stats,
                    table0, prev, runs >>
    /\ UNCHANGED << scraperVars, fetcherVars, adapterVars, triggerVars, solverVars, connectVars >>

\* the list the strategy hands to create_items
ItemsToCreate == IF strategy = "replace" THEN items ELSE new_items_of(items, existing_ids)

\* the statement after the create step
\* Mutant: sync() goes on when create_items raised
create_items_ends_swallowed(failing) == "return"

\* how the create_items call ends for sync(): it returns created_count, or
\* the exception of the failing batch, re-raised by the adapter, leaves
\* sync() (no try around the call)
create_items_ends(failing) == IF failing = 0 THEN "return" ELSE "raise"

AfterCreate ==
    IF strategy = "incremental" THEN "mark_as_deprecated"
    ELSE IF strategy = "full" THEN "update_item"
    ELSE "done"

\* Step 4 / 4a / 3: "if new_items: created_count = create_items(new_items)".
\* _create_items_sync commits batch after batch; batch number failing raises,
\* the batches before it stay (failing = 0: no batch fails).
CreateItems ==
    /\ pc = "create_items"
    /\ LET arg == ItemsToCreate IN
       IF arg = <<>> THEN
            /\ pc' = AfterCreate
            /\ stats' = IF strategy = "replace"
                        THEN [deleted |-> counts.deleted, created |-> 0]
                        ELSE stats
            /\ UNCHANGED << table, counts, calls, clean, failures >>
       ELSE \E failing \in 0..NumBatches(Len(arg)) :
            /\ MayFail(IF failing = 0 THEN 0 ELSE 1)
            /\ calls' = Append(calls, Call("create_items", arg, {}, failing = 0))
            /\ clean' = (clean /\ failing = 0)
            /\ IF create_items_ends(failing) = "return" THEN
                    /\ table' = table \o RecordsData(arg)
                    /\ counts' = [counts EXCEPT !.created = Len(arg)]
                    /\ pc' = AfterCreate
                    /\ stats' = IF strategy = "replace"
                                THEN [deleted |-> counts.deleted, created |-> Len(arg)]
                                ELSE stats
               ELSE
                    /\ table' = table \o RecordsData(FirstBatches(arg, failing - 1))
                    /\ pc' = "raised"
                    /\ UNCHANGED << counts, stats >>
    /\ todo' = IF strategy = "full" THEN existing_items_of(items, existing_ids) ELSE todo
    /\ UNCHANGED << source, launch, strategy, items, existing_ids, table0, prev, runs >>
    /\ UNCHANGED << scraperVars, fetcherVars, adapterVars, triggerVars, solverVars, connectVars >>

\* Step 5 of IncrementalSyncStrategy.sync and the return of the statistics.
\* In mark_as_deprecated the requests for the ids in failed raise and are
\* skipped (except ... continue).
MarkAsDeprecated ==
    /\ pc = "mark_as_deprecated"
    /\ LET deprecated_ids == deprecated_ids_of(existing_ids, scraped_ids_of(items))
           skipped_count == skipped_count_of(items, new_items_of(items, existing_ids))
       IN IF deprecated_ids = {} THEN
               /\ stats' = [total |-> Len(items), new |-> counts.created,
                            skipped |-> skipped_count, deprecated |-> 0]
               /\ UNCHANGED << table, counts, calls, clean, failures >>
          ELSE \E failed \in SUBSET deprecated_ids :
               LET done == Marked(table, deprecated_ids \ failed) IN
               /\ MayFail(Cardinality(failed))
               /\ table' = MarkAll(table, deprecated_ids \ failed)
               /\ calls' = Append(calls, Call("mark_as_deprecated", <<>>, deprecated_ids,
                                              failed = {}))
               /\ clean' = (clean /\ failed = {})
               /\ counts' = [counts EXCEPT !.deprecated = Cardinality(done)]
               /\ stats' = [total |-> Len(items), new |-> counts.created,
                            skipped |-> skipped_count, deprecated |-> Cardinality(done)]
    /\ pc' = "done"
    /\ UNCHANGED << source, launch, strategy, items, existing_ids, todo, table0, prev,
                    runs >>
    /\ UNCHANGED << scraperVars, fetcherVars, adapterVars, triggerVars, solverVars, connectVars >>

\* Step 4b of FullSyncStrategy.sync, one turn of "for item in existing_items".
\* _update_item_sync looks the record up with the formula
\* {TTB ID} = '<ttb_id>' and returns True after table.update; it returns False
\* when the lookup finds nothing or a request raises.
UpdateItem ==
    /\ pc = "update_item"
    /\ todo # <<>>
    /\ LET item == Head(todo)
           found == first_match(table, int(item.ttb_id))
       IN \E ok \in BOOLEAN :
            /\ ok => found # {}
            /\ MayFail(IF ok THEN 0 ELSE 1)
            /\ table' = IF ok
                        THEN [i \in DOMAIN table |->
                                 IF i \in found THEN item_to_record(item) ELSE table[i]]
                        ELSE table
            /\ calls' = Append(calls, Call("update_item", <<item>>, {}, ok))
            /\ clean' = (clean /\ ok)
            /\ counts' = IF ok THEN [counts EXCEPT !.updated = @ + 1] ELSE counts
    /\ todo' = Tail(todo)
    /\ UNCHANGED << source, launch, strategy, pc, items, existing_ids, stats, table0,
                    prev, runs >>
    /\ UNCHANGED << scraperVars, fetcherVars, adapterVars, triggerVars, solverVars, connectVars >>

\* FullSyncStrategy.sync: the loop is over, the statistics are returned
FullReturn ==
    /\ pc = "update_item"
    /\ todo = <<>>
    /\ stats' = [total |-> Len(items), new |-> counts.created, updated |-> counts.updated]
    /\ pc' = "done"
    /\ UNCHANGED << source, table, launch, strategy, items, existing_ids, todo, counts,
                    calls, table0, clean, prev, runs, failures >>
    /\ UNCHANGED << scraperVars, fetcherVars, adapterVars, triggerVars, solverVars, connectVars >>

\* Step 1 of ReplaceSyncStrategy.sync: deleted_count = delete_all().
\* delete_all deletes batch after batch; when table.all() or batch number
\* failing raises, the exception is re-raised and the batches before stay
\* deleted.
DeleteAll ==
    /\ pc = "delete_all"
    /\ \E failing \in 0..(IF table = <<>> THEN 1 ELSE NumBatches(Len(table))) :
         /\ MayFail(IF failing = 0 THEN 0 ELSE 1)
         /\ calls' = Append(calls, Call("delete_all", <<>>, {}, failing = 0))
         /\ clean' = (clean /\ failing = 0)
         /\ IF failing = 0 THEN
                 /\ table' = <<>>
                 /\ counts' = [counts EXCEPT !.deleted = Len(table)]
                 /\ pc' = "scrape"
            ELSE
                 /\ table' = SubSeq(table, Len(FirstBatches(table, failing - 1)) + 1, Len(table))
                 /\ counts' = counts
                 /\ pc' = "raised"
    /\ UNCHANGED << source, launch, strategy, items, existing_ids, todo, stats, table0,
                    prev, runs >>
    /\ UNCHANGED << scraperVars, fetcherVars, adapterVars, triggerVars, solverVars, connectVars >>

\* the ids of the items a successful create_items call of this run stored
CreatedIds ==
    UNION { scraped_ids_of(calls[i].items) :
              i \in { j \in DOMAIN calls : calls[j].op = "create_items" /\ calls[j].ok } }

\* sync() returns its statistics or raises, or the launch has ended without
\* it: the run is over
Return ==
    /\ pc \in {"done", "raised", "exited"}
    /\ pc' = "idle"
    /\ launch' = NoLaunch
    /\ prev' = [strategy |-> strategy, result |-> pc, clean |-> clean,
                created |-> CreatedIds, unchanged |-> TRUE]
    /\ UNCHANGED << source, table, strategy, items, existing_ids, todo, counts,
                    stats, calls, table0, clean, runs, failures >>
    /\ UNCHANGED << scraperVars, fetcherVars, adapterVars, triggerVars, solverVars, connectVars >>

Next ==
    \/ Main
    \/ RunSyncJob
    \/ StartSync
    \/ SourceChange
    \/ Scrape
    \/ GetExistingIds
    \/ CreateItems
    \/ MarkAsDeprecated
    \/ UpdateItem
    \/ FullReturn
    \/ DeleteAll
    \/ Return

Spec == Init /\ [][Next]_vars


\* the sync engine is not running and storage is empty
SyncIdle ==
    /\ source = <<>>
    /\ table = <<>>
    /\ launch = NoLaunch
    /\ strategy = "none"
    /\ pc = "idle"
    /\ items = <<>>
    /\ existing_ids = {}
    /\ todo = <<>>
    /\ counts = NoCounts
    /\ stats = NoStats
    /\ calls = <<>>
    /\ table0 = <<>>
    /\ clean = TRUE
    /\ prev = NoPrev
    /\ runs = 0
    /\ failures = 0

allVars == << vars, scraperVars, fetcherVars, adapterVars, triggerVars, solverVars,
             connectVars >>

\* ====================================================== TTBScraper.scrape()
\* the rows _extract_items_from_page finds on a list page, as their
\* identifiers ("1", "2"), in page order
PageRows ==
    { <<>>, << <<1>> >>, << <<2>> >>, << <<1>>, <<2>> >>, << <<1>>, <<1>> >> }

\* a pagination div without the text "X to Y of Z"
NoRange == <<>>

\* <div class="pagination">: the range <<X, Y, Z>> its text reports (or
\* NoRange) and whether it holds a "Next" link with a real href
Div(r, n) == [range |-> r, next |-> n]

\* the pagination divs of a list page, in document order
Paginations ==
    { <<>>,
      << Div(<<1, 20, 50>>, TRUE) >>,
      << Div(<<42, 50, 50>>, TRUE) >>,
      << Div(<<42, 50, 50>>, FALSE) >>,
      << Div(NoRange, TRUE) >>,
      << Div(NoRange, FALSE) >>,
      << Div(NoRange, FALSE), Div(<<1, 20, 50>>, FALSE) >>,
      << Div(NoRange, TRUE), Div(<<42, 50, 50>>, FALSE) >> }

\* what client.post / client.get gives for a list page: a response with
\* status 200 and a page, a response with another status, or no response
\* (status 0: the request raised, e.g. a timeout)
Responses ==
    [status : {200}, rows : PageRows, divs : Paginations]
        \cup { [status |-> 500, rows |-> <<>>, divs |-> <<>>],
               [status |-> 0, rows |-> <<>>, divs |-> <<>>] }

\* how a detail request ends: page fetched and parsed, status other than
\* 200, the request raised, the page fetched but its parse raised
DetailOutcomes == {"ok", "non200", "error", "parse_error"}

\* Mutant: the Next link is followed whatever the range says
has_next_page_link(divs) == \E i \in DOMAIN divs : divs[i].next

RECURSIVE has_next_page(_)
\* TTBScraper._has_next_page: the first pagination div with a range decides
\* by end_range >= total; a div without one says yes if it has a Next link
has_next_page(divs) ==
    IF divs = <<>> THEN FALSE
    ELSE LET div == Head(divs) IN
         IF div.range # NoRange THEN ~(div.range[2] >= div.range[3])
         ELSE IF div.next THEN TRUE
         ELSE has_next_page(Tail(divs))

\* the identifiers of the items in all_results
result_ids(results) == { results[i].ttb_id : i \in DOMAIN results }

\* TTBItem built by _extract_items_from_page from row of list page p: the
\* identifier, the list-page fields (list), no detail fields yet
Row(id, p) == [ttb_id |-> id, list |-> p, details |-> "none"]

\* new_items of scrape(): the rows of the page whose identifier no item of
\* all_results has (all_results grows only after this loop)
page_new_items(rows, results, p) ==
    SelectSeq([i \in DOMAIN rows |-> Row(rows[i], p)],
              LAMBDA it : it.ttb_id \notin result_ids(results))

\* duplicates of scrape(): the rows whose identifier an item of all_results has
duplicates_of(rows, results) ==
    Cardinality({ i \in DOMAIN rows : rows[i] \in result_ids(results) })

\* Mutant: the loop guard never finds a page of duplicates only
all_duplicates_never(dups, rows) == FALSE

\* "if duplicates == len(page_results)"
all_duplicates(dups, rows) == dups = Len(rows)

\* Mutant: a status other than 200 raises out of scrape()
after_page_raising(r) ==
    IF r.status # 200 THEN "raise"
    ELSE IF r.rows = <<>> THEN "break"
    ELSE "parse"

\* scrape() after a page request: the request raised (nothing in scrape()
\* catches it and get_http_client re-raises), or the status is not 200
\* (break), or the page has no rows (break), or the rows are handled
after_page(r) ==
    IF r.status = 0 THEN "raise"
    ELSE IF r.status # 200 THEN "break"
    ELSE IF r.rows = <<>> THEN "break"
    ELSE "parse"

\* _fetch_detail_page returns the html (TRUE) or None (FALSE)
fetch_detail_page(outcome) == outcome \in {"ok", "parse_error"}

\* _parse_detail_page: the details dictionary, whole or as far as the parse
\* got when it raised (the exception is caught there)
parse_detail_page(outcome) == IF outcome = "ok" THEN "full" ELSE "partial"

\* Mutant: without the detail page the item loses its list-page fields
enrich_item_blank(item, outcome) ==
    IF ~fetch_detail_page(outcome) THEN [item EXCEPT !.list = 0]
    ELSE [item EXCEPT !.details = parse_detail_page(outcome)]

\* _enrich_item_with_details: the item itself when no html came, else the
\* item updated with the parsed details
enrich_item_with_details(item, outcome) ==
    IF ~fetch_detail_page(outcome) THEN item
    ELSE [item EXCEPT !.details = parse_detail_page(outcome)]

\* every component as constructed
OthersIdle ==
    /\ SyncIdle
    /\ ScraperIdle
    /\ FetcherIdle
    /\ AdapterIdle
    /\ TriggerIdle
    /\ SolverIdle
    /\ ConnectIdle

ScraperInit == OthersIdle

\* scrape() is called: all_results = [], page = 1
ScrapeStart ==
    /\ s_pc = "idle"
    /\ s_pc' = "request"
    /\ all_results' = <<>>
    /\ page' = 1
    /\ UNCHANGED << soup, new_items, duplicates, responses, events >>
    /\ UNCHANGED << vars, fetcherVars, adapterVars, triggerVars, solverVars, connectVars >>

\* One page request of the while loop (POST for page 1, GET after it), the
\* status check, the parse, the "no results" check and the duplicate check.
FetchPage ==
    /\ s_pc = "request"
    /\ \E r \in Responses :
         /\ soup' = r
         /\ events' = Append(events, "page")
         /\ responses' = Append(responses,
                [status |-> r.status, rows |-> r.rows, divs |-> r.divs,
                 collected |-> result_ids(all_results), count |-> Len(all_results)])
         /\ s_pc' = CASE after_page(r) = "raise" -> "raised"
                      [] after_page(r) = "break" -> "returned"
                      [] OTHER -> "enrich"
         /\ new_items' = IF after_page(r) = "parse"
                         THEN page_new_items(r.rows, all_results, page) ELSE <<>>
         /\ duplicates' = IF after_page(r) = "parse"
                          THEN duplicates_of(r.rows, all_results) ELSE 0
    /\ UNCHANGED << all_results, page >>
    /\ UNCHANGED << vars, fetcherVars, adapterVars, triggerVars, solverVars, connectVars >>

\* One turn of "for item in new_items": the detail request, the append to
\* all_results, time.sleep(self.delay_between_requests).
EnrichItem ==
    /\ s_pc = "enrich"
    /\ new_items # <<>>
    /\ \E outcome \in DetailOutcomes :
         all_results' = Append(all_results, enrich_item_with_details(Head(new_items), outcome))
    /\ new_items' = Tail(new_items)
    /\ events' = events \o <<"detail", "sleep">>
    /\ UNCHANGED << s_pc, page, soup, duplicates, responses >>
    /\ UNCHANGED << vars, fetcherVars, adapterVars, triggerVars, solverVars, connectVars >>

\* After the enrichment loop: break when all rows were duplicates, break
\* when _has_next_page says no, else page += 1, sleep, next turn.
NextPage ==
    /\ s_pc = "enrich"
    /\ new_items = <<>>
    /\ IF all_duplicates(duplicates, soup.rows) \/ ~has_next_page(soup.divs) THEN
            /\ s_pc' = "returned"
            /\ UNCHANGED << page, events >>
       ELSE
            /\ s_pc' = "request"
            /\ page' = page + 1
            /\ events' = Append(events, "sleep")
    /\ UNCHANGED << all_results, soup, new_items, duplicates, responses >>
    /\ UNCHANGED << vars, fetcherVars, adapterVars, triggerVars, solverVars, connectVars >>

ScraperNext ==
    \/ ScrapeStart
    \/ FetchPage
    \/ EnrichItem
    \/ NextPage

ScraperSpec == ScraperInit /\ [][ScraperNext]_allVars

\* =============================== ColaDocumentFetcher.fetch_document_pdf()
\* what the browser page shows: the captcha prompt with the captcha image,
\* the prompt without a usable image, a document landmark without the
\* prompt, or none of them
PageKinds == {"captcha", "prompt", "document", "neither"}

\* _check_for_captcha_on_page, has_captcha: the prompt and the image are
\* visible; (False, None) when a locator call raised
check_for_captcha_on_page(p, raised) == ~raised /\ p = "captcha"

\* Mutant: every page without the captcha prompt passes for the document
is_document_page_lax(p, raised) == p \notin {"captcha", "prompt"}

\* _is_document_page: no prompt and one of the landmarks visible; False when
\* a locator call raised
is_document_page(p, raised) == ~raised /\ p = "document"

\* Mutant: the loop makes one more turn
in_range_inclusive(a, n) == a <= n

\* "for attempt in range(max_retries)": there is a turn number a (from 0)
in_range(a, n) == a < n

\* Mutant: an exception leaves fetch_document_pdf
fetch_result_propagating(value, close_ok) ==
    IF value = "raise" \/ ~close_ok THEN "raised" ELSE value

\* What fetch_document_pdf gives its caller: value is the return value
\* reached inside the inner try ("pdf", "None") or "raise" when a statement
\* raised; the finally clause (page.close(), and closing a temporary
\* session) may raise too; "except Exception: return None" catches both.
fetch_result(value, close_ok) ==
    IF value = "raise" \/ ~close_ok THEN "None" ELSE value

\* fetch_document_pdf, line 425: what a temporary session consists of;
\* with a persistent session the call acquires nothing but the page
acquired(persistent) ==
    IF persistent THEN {} ELSE {"context", "browser", "playwright"}

\* The finally clause: the release calls in the order of the code.
releases(persistent) ==
    IF persistent THEN <<"page">> ELSE <<"page", "context", "browser", "playwright">>

\* Mutant: each release call is made whatever the earlier ones did
called_all(rs, k) == { rs[j] : j \in 1..Len(rs) }

\* The release calls that are made when the first k of them return and the
\* next one raises: that one is the last call of the finally clause.
called(rs, k) == { rs[j] : j \in 1..Min({k + 1, Len(rs)}) }

\* Mutant: the page of a fetch is left open
after_close_leaving(n) == n

\* "await page.close()": the number of open pages after it
after_close(n) == n - 1

FetcherInit == OthersIdle

\* connect_browser(): a persistent session is established
ConnectBrowser ==
    /\ f_pc = "idle"
    /\ ~browser
    /\ browser' = TRUE
    /\ UNCHANGED << f_pc, session, max_retries, attempt, shown, pending, result,
                    track, tally, held >>
    /\ UNCHANGED << vars, scraperVars, adapterVars, triggerVars, solverVars, connectVars >>

\* disconnect_browser()
DisconnectBrowser ==
    /\ f_pc = "idle"
    /\ browser
    /\ browser' = FALSE
    /\ UNCHANGED << f_pc, session, max_retries, attempt, shown, pending, result,
                    track, tally, held >>
    /\ UNCHANGED << vars, scraperVars, adapterVars, triggerVars, solverVars, connectVars >>

\* fetch_document_pdf(ttb_id, max_retries) is called
FetchStart ==
    /\ f_pc = "idle"
    /\ \E n \in 0..MaxRetries : max_retries' = n
    /\ session' = browser
    /\ f_pc' = "open"
    /\ attempt' = 0
    /\ shown' = "blank"
    /\ pending' = "none"
    /\ result' = "none"
    /\ track' = <<>>
    /\ tally' = NoTally
    /\ held' = [held EXCEPT !.temp = {}]
    /\ UNCHANGED browser
    /\ UNCHANGED << vars, scraperVars, adapterVars, triggerVars, solverVars, connectVars >>

\* context.new_page(), after _connect_to_browserless_with_retry() when there
\* is no persistent session; either may raise, outside the inner try
OpenPage ==
    /\ f_pc = "open"
    /\ \E connected \in BOOLEAN, ok \in BOOLEAN :
         /\ session => connected
         /\ ~connected => ~ok
         /\ held' = [pages |-> IF ok THEN held.pages + 1 ELSE held.pages,
                     temp  |-> IF connected THEN acquired(session) ELSE {}]
         /\ IF ok THEN
                 /\ f_pc' = "goto"
                 /\ UNCHANGED << pending, result, tally >>
            ELSE
                 /\ pending' = "raise"
                 /\ result' = fetch_result("raise", TRUE)
                 /\ tally' = [tally EXCEPT !.broke = "open"]
                 /\ f_pc' = "returned"
    /\ UNCHANGED << browser, session, max_retries, attempt, shown, track >>
    /\ UNCHANGED << vars, scraperVars, adapterVars, triggerVars, solverVars, connectVars >>

\* page.goto(url, wait_until='networkidle', timeout=30000)
Goto ==
    /\ f_pc = "goto"
    /\ \E ok \in BOOLEAN, p \in PageKinds :
         IF ok THEN
              /\ shown' = p
              /\ track' = Append(track, "NAVIGATED")
              /\ f_pc' = "check"
              /\ UNCHANGED << pending, tally >>
         ELSE
              /\ pending' = "raise"
              /\ tally' = [tally EXCEPT !.broke = "goto"]
              /\ f_pc' = "close"
              /\ UNCHANGED << shown, track >>
    /\ UNCHANGED << browser, session, max_retries, attempt, result, held >>
    /\ UNCHANGED << vars, scraperVars, adapterVars, triggerVars, solverVars, connectVars >>

\* _handle_captcha, head of a loop turn: the loop is over (return False), or
\* the captcha check finds none and _is_document_page decides (return), or
\* a captcha is there
Check ==
    /\ f_pc = "check"
    /\ IF ~in_range(attempt, max_retries) THEN
            /\ pending' = "None"
            /\ track' = Append(track, "FAILED")
            /\ f_pc' = "close"
            /\ UNCHANGED tally
       ELSE \E raised \in BOOLEAN, raised2 \in BOOLEAN :
            /\ tally' = [tally EXCEPT !.checks = @ + 1,
                                      !.first = IF @ = "none" THEN shown ELSE @]
            /\ IF check_for_captcha_on_page(shown, raised) THEN
                    /\ track' = Append(track, "CAPTCHA_PRESENT")
                    /\ f_pc' = "solve"
                    /\ UNCHANGED pending
               ELSE IF is_document_page(shown, raised2) THEN
                    /\ track' = Append(track, "DOCUMENT_READY")
                    /\ f_pc' = "render"
                    /\ UNCHANGED pending
               ELSE
                    /\ pending' = "None"
                    /\ track' = Append(track, "FAILED")
                    /\ f_pc' = "close"
    /\ UNCHANGED << browser, session, max_retries, attempt, shown, result, held >>
    /\ UNCHANGED << vars, scraperVars, adapterVars, triggerVars, solverVars, connectVars >>

\* captcha_solver.solve_image_captcha(image_data): a text, or None
\* ("continue": the next turn)
Solve ==
    /\ f_pc = "solve"
    /\ track' = Append(track, "SOLVING")
    /\ tally' = [tally EXCEPT !.solved = @ + 1]
    /\ \E solved \in BOOLEAN :
         IF solved THEN
              /\ f_pc' = "submit"
              /\ UNCHANGED attempt
         ELSE
              /\ f_pc' = "check"
              /\ attempt' = attempt + 1
    /\ UNCHANGED << browser, session, max_retries, shown, pending, result, held >>
    /\ UNCHANGED << vars, scraperVars, adapterVars, triggerVars, solverVars, connectVars >>

\* The try block of _handle_captcha: when the answer field and the button
\* are visible, fill, click, wait for the load, then _is_document_page
\* (return True); when they are not, when a call raises or when the page is
\* not the document, the next turn.
Submit ==
    /\ f_pc = "submit"
    /\ \E visible \in BOOLEAN, ok \in BOOLEAN, p \in PageKinds, raised \in BOOLEAN :
         IF ~visible THEN
              /\ f_pc' = "check"
              /\ attempt' = attempt + 1
              /\ UNCHANGED << shown, track, tally >>
         ELSE
              /\ tally' = [tally EXCEPT !.submits = @ + 1]
              /\ shown' = p
              /\ IF ~ok THEN
                      /\ f_pc' = "check"
                      /\ attempt' = attempt + 1
                      /\ UNCHANGED track
                 ELSE IF is_document_page(p, raised) THEN
                      /\ track' = track \o <<"RESUBMITTED", "DOCUMENT_READY">>
                      /\ f_pc' = "render"
                      /\ UNCHANGED attempt
                 ELSE
                      /\ track' = Append(track, "RESUBMITTED")
                      /\ f_pc' = "check"
                      /\ attempt' = attempt + 1
    /\ UNCHANGED << browser, session, max_retries, pending, result, held >>
    /\ UNCHANGED << vars, scraperVars, adapterVars, triggerVars, solverVars, connectVars >>

\* _handle_captcha returned True: wait for the images, page.pdf(...)
Render ==
    /\ f_pc = "render"
    /\ \E ok \in BOOLEAN :
         IF ok THEN
              /\ pending' = "pdf"
              /\ UNCHANGED tally
         ELSE
              /\ pending' = "raise"
              /\ tally' = [tally EXCEPT !.broke = "render"]
    /\ f_pc' = "close"
    /\ UNCHANGED << browser, session, max_retries, attempt, shown, result, track, held >>
    /\ UNCHANGED << vars, scraperVars, adapterVars, triggerVars, solverVars, connectVars >>

\* The finally clause (page.close(); context, browser and playwright of a
\* temporary session), then the return or "except Exception: return None"
Close ==
    /\ f_pc = "close"
    /\ \E k \in 0..Len(releases(session)) :
         LET ok == k = Len(releases(session)) IN
         /\ result' = fetch_result(pending, ok)
         /\ tally' = IF ok THEN tally ELSE [tally EXCEPT !.broke = "close"]
         /\ held' = [pages |-> after_close(held.pages),
                     temp  |-> held.temp \ called(releases(session), k)]
    /\ f_pc' = "returned"
    /\ UNCHANGED << browser, session, max_retries, attempt, shown, pending, track >>
    /\ UNCHANGED << vars, scraperVars, adapterVars, triggerVars, solverVars, connectVars >>

\* the caller has the result; the fetcher is free for the next identifier
FetchReturn ==
    /\ f_pc = "returned"
    /\ f_pc' = "idle"
    /\ UNCHANGED << browser, session, max_retries, attempt, shown, pending, result,
                    track, tally, held >>
    /\ UNCHANGED << vars, scraperVars, adapterVars, triggerVars, solverVars, connectVars >>

FetcherNext ==
    \/ ConnectBrowser
    \/ DisconnectBrowser
    \/ FetchStart
    \/ OpenPage
    \/ Goto
    \/ Check
    \/ Solve
    \/ Submit
    \/ Render
    \/ Close
    \/ FetchReturn

FetcherSpec == FetcherInit /\ [][FetcherNext]_allVars

\* ============================ AirtableAdapter: batches and document fetching
\* numbers of items / stored records the calls are made with
Sizes == {0, 1, 2, 10, 11, 20, 21}
\* numbers of items of the create_items calls that fetch documents
DocSizes == {0, 1, 2, 11}
\* values of a text field: None, the empty string, two texts
Values == {"none", "", "a", "b"}
Urls == {"u", "v"}
Items == [brand : Values, url : Urls]
StoredRecs == [brand : Values, url : Urls, deprecated : BOOLEAN, cola : 0..1, latest : 0..1]
\* table.all(formula=...): a record, no record, or the request raises
Lookups == {"found", "empty", "raise"}
\* fetch_document_pdf(ttb_id): max_retries of the calls the adapter makes
DefaultMaxRetries == 3

Value(n) == [kind |-> "value", value |-> n]
Raised == [kind |-> "raised", value |-> 0]

\* Python truthiness of a text field value
Nonempty(v) == v \notin {"none", ""}

\* _item_to_record, the fields the adapter model keeps
record_of(item) == [brand |-> item.brand, url |-> item.url, deprecated |-> FALSE]

\* table.update(record_id, record_data): the fields of record_data replace
\* the stored ones, the attachment fields stay
written(stored, item) ==
    [stored EXCEPT !.brand = item.brand, !.url = item.url, !.deprecated = FALSE]

\* Mutant: the batch takes all the remaining records
batch_rest(i, n) == [lo |-> i, hi |-> n]

\* items[i:i + batch_size]: the records lo+1 .. hi of the input
batch(i, n) == [lo |-> i, hi |-> Min({i + batch_size, n})]

\* Mutant: a failed batch is skipped and the loop goes on
after_batch_skipping(ok, i, n) ==
    IF i + batch_size < n THEN "batch" ELSE "done"

\* after table.batch_create / table.batch_delete of the batch at i: the
\* except clause re-raises; "for i in range(0, len(items), batch_size)"
\* has another turn or is over
after_batch(ok, i, n) ==
    IF ~ok THEN "raise"
    ELSE IF i + batch_size < n THEN "batch" ELSE "done"

\* Mutant: __aexit__ is skipped when the body raised
aexit_on_success(raising) == ~raising

\* "async with self.document_fetcher": __aexit__ (disconnect_browser) is
\* awaited when the body ends, normally or by an exception
aexit(raising) == TRUE

\* _has_cola_documents: (bool(COLA), bool(Latest COLA)); (False, False)
\* when table.get raised
has_cola_documents(rec, got) == << got /\ rec.cola > 0, got /\ rec.latest > 0 >>

\* fields_to_check of _has_fields_changed
fields_to_check == {"brand"}

\* Mutant: the URL is compared too
has_fields_changed_url(lookup, old, new) ==
    lookup # "found" \/ \E f \in fields_to_check \cup {"url"} :
                           (Nonempty(old[f]) \/ Nonempty(new[f])) /\ old[f] # new[f]

\* _has_fields_changed: True when the record is not found or the lookup
\* raised, else "(old_value or new_value) and old_value != new_value" for
\* some field of fields_to_check
has_fields_changed(lookup, old, new) ==
    lookup # "found" \/ \E f \in fields_to_check :
                           (Nonempty(old[f]) \/ Nonempty(new[f])) /\ old[f] # new[f]

\* Mutant: a document that cannot be fetched or uploaded raises
fetch_and_upload_raising(res, u) ==
    IF res = "pdf" /\ u = 3 THEN "True" ELSE "raise"

\* _fetch_and_upload_document after the fetch: False when there are no pdf
\* bytes, else what _upload_pdf_to_fields returns (u of its three storage
\* requests succeeded); "except Exception: return False"
fetch_and_upload(res, u) ==
    IF res = "pdf" /\ u = 3 THEN "True" ELSE "False"

\* _upload_pdf_to_fields(upload_to_both=True) when u of its three requests
\* succeed: upload to COLA (appended), clear Latest COLA, upload to it
uploaded(rec, u) ==
    [rec EXCEPT !.cola = IF u >= 1 THEN @ + 1 ELSE @,
                !.latest = IF u >= 3 THEN 1 ELSE IF u = 2 THEN 0 ELSE @]

AdapterInit == OthersIdle

\* the adapter was constructed and no call was made on it yet
Ready == a_pc = "idle" /\ f_pc = "idle"

\* create_items(items) with n items while the table holds m records
CreateItemsCall ==
    /\ Ready
    /\ \E docs \in BOOLEAN, m \in {0, 1} :
       \E n \in IF docs THEN DocSizes ELSE Sizes :
         /\ a_call' = [op |-> "create_items", n |-> n, docs |-> docs, item |-> NoItem]
         /\ a_store' = [records |-> m, rec |-> NoRec]
         /\ a_log' = [NoLog EXCEPT !.before = [records |-> m, rec |-> NoRec]]
         /\ a_loop' = NoLoop
         /\ IF n = 0 THEN
                 /\ a_pc' = "returned"
                 /\ a_return' = Value(0)
            ELSE
                 /\ a_pc' = IF docs THEN "connect" ELSE "batch"
                 /\ a_return' = NoReturn
    /\ UNCHANGED << vars, scraperVars, fetcherVars, triggerVars, solverVars, connectVars >>

\* Mutant: the body of the "async with" runs without a browser connection
aenter_lenient(ok) == "body"

\* __aenter__ awaits connect_browser(): the body of the "async with" is
\* entered when the connection is made; the ConnectionError raised after
\* the last failed attempt leaves __aenter__ and the "async with"
aenter(ok) == IF ok THEN "body" ELSE "raise"

\* "async with self.document_fetcher": __aenter__, connect_browser(); a
\* ConnectionError leaves _create_items_async through "except: raise"
Connect ==
    /\ a_pc = "connect"
    /\ \E ok \in BOOLEAN :
         IF aenter(ok) = "body" THEN
              /\ browser' = ok
              /\ a_log' = [a_log EXCEPT !.opens = IF ok THEN @ + 1 ELSE @]
              /\ a_pc' = "batch"
              /\ UNCHANGED a_return
         ELSE
              /\ a_pc' = "raised"
              /\ a_return' = Raised
              /\ UNCHANGED << browser, a_log >>
    /\ UNCHANGED << a_call, a_loop, a_store >>
    /\ UNCHANGED << f_pc, session, max_retries, attempt, shown, pending, result,
                    track, tally, held >>
    /\ UNCHANGED << vars, scraperVars, triggerVars, solverVars, connectVars >>

\* One turn of the batch loop of _create_items_sync / _create_items_async:
\* table.batch_create(records_data), created_count += len(batch)
BatchCreate ==
    /\ a_pc = "batch"
    /\ a_call.op = "create_items"
    /\ \E ok \in BOOLEAN :
         LET b == batch(a_loop.i, a_call.n)
             size == b.hi - b.lo
             next == after_batch(ok, a_loop.i, a_call.n)
         IN
         /\ a_log' = [a_log EXCEPT !.batches = Append(@, [lo |-> b.lo, hi |-> b.hi, ok |-> ok])]
         /\ a_store' = IF ok THEN [a_store EXCEPT !.records = @ + size] ELSE a_store
         /\ IF next = "raise" THEN
                 /\ a_loop' = [a_loop EXCEPT !.raising = TRUE]
                 /\ a_pc' = IF a_call.docs THEN "exit" ELSE "raised"
                 /\ a_return' = IF a_call.docs THEN a_return ELSE Raised
            ELSE IF a_call.docs /\ ok THEN
                 /\ a_loop' = [a_loop EXCEPT !.count = @ + size, !.idx = 0]
                 /\ a_pc' = "docs"
                 /\ UNCHANGED a_return
            ELSE IF next = "batch" THEN
                 /\ a_loop' = [a_loop EXCEPT !.count = IF ok THEN @ + size ELSE @,
                                             !.i = @ + batch_size]
                 /\ a_pc' = "batch"
                 /\ UNCHANGED a_return
            ELSE
                 /\ a_loop' = [a_loop EXCEPT !.count = IF ok THEN @ + size ELSE @]
                 /\ a_pc' = IF a_call.docs THEN "exit" ELSE "returned"
                 /\ a_return' = IF a_call.docs THEN a_return ELSE Value(a_loop'.count)
    /\ UNCHANGED a_call
    /\ UNCHANGED << vars, scraperVars, fetcherVars, triggerVars, solverVars, connectVars >>

\* _fetch_and_upload_document awaits fetch_document_pdf(ttb_id): the call
\* uses the persistent session when connect_browser() made one
DocFetchStart ==
    /\ a_pc = "docs"
    /\ f_pc = "idle"
    /\ a_pc' = "fetching"
    /\ a_log' = [a_log EXCEPT !.fetches = @ + 1]
    /\ max_retries' = DefaultMaxRetries
    /\ session' = browser
    /\ f_pc' = "open"
    /\ attempt' = 0
    /\ shown' = "blank"
    /\ pending' = "none"
    /\ result' = "none"
    /\ track' = <<>>
    /\ tally' = NoTally
    /\ held' = [held EXCEPT !.temp = {}]
    /\ UNCHANGED << browser, a_call, a_loop, a_store, a_return >>
    /\ UNCHANGED << vars, scraperVars, triggerVars, solverVars, connectVars >>

\* fetch_document_pdf has returned: _upload_pdf_to_fields when there are
\* pdf bytes, then asyncio.sleep(0.5) and the next item, the next batch, the
\* end of the "async with" body, or the return of _update_item_async
DocFetched ==
    /\ a_pc = "fetching"
    /\ f_pc = "returned"
    /\ f_pc' = "idle"
    /\ \E u \in 0..3 :
         LET done == fetch_and_upload(result, u)
             b == batch(a_loop.i, a_call.n)
         IN
         /\ result # "pdf" => u = 0
         /\ a_log' = [a_log EXCEPT !.uploads = IF done = "True" THEN @ + 1 ELSE @]
         /\ a_store' = IF result = "pdf" /\ a_call.op = "update_item"
                        THEN [a_store EXCEPT !.rec = uploaded(@, u)] ELSE a_store
         /\ IF a_call.op = "update_item" THEN
                 /\ a_pc' = "returned"
                 /\ a_return' = Value(IF done = "raise" THEN 0 ELSE 1)
                 /\ UNCHANGED a_loop
            ELSE IF done = "raise" THEN
                 /\ a_pc' = "exit"
                 /\ a_loop' = [a_loop EXCEPT !.raising = TRUE]
                 /\ UNCHANGED a_return
            ELSE IF a_loop.idx + 1 < b.hi - b.lo THEN
                 /\ a_pc' = "docs"
                 /\ a_loop' = [a_loop EXCEPT !.idx = @ + 1]
                 /\ UNCHANGED a_return
            ELSE IF after_batch(TRUE, a_loop.i, a_call.n) = "batch" THEN
                 /\ a_pc' = "batch"
                 /\ a_loop' = [a_loop EXCEPT !.i = @ + batch_size, !.idx = 0]
                 /\ UNCHANGED a_return
            ELSE
                 /\ a_pc' = "exit"
                 /\ UNCHANGED << a_loop, a_return >>
    /\ UNCHANGED a_call
    /\ UNCHANGED << browser, session, max_retries, attempt, shown, pending, result,
                    track, tally, held >>
    /\ UNCHANGED << vars, scraperVars, triggerVars, solverVars, connectVars >>

\* The end of the "async with" body: __aexit__, disconnect_browser() (each
\* close under its own try/except), then "return created_count" or the
\* exception of the body through "except: raise"
Disconnect ==
    /\ a_pc = "exit"
    /\ browser' = IF aexit(a_loop.raising) THEN FALSE ELSE browser
    /\ a_log' = [a_log EXCEPT !.closes = IF aexit(a_loop.raising) THEN @ + 1 ELSE @]
    /\ IF a_loop.raising THEN
            /\ a_pc' = "raised"
            /\ a_return' = Raised
       ELSE
            /\ a_pc' = "returned"
            /\ a_return' = Value(a_loop.count)
    /\ UNCHANGED << a_call, a_loop, a_store >>
    /\ UNCHANGED << f_pc, session, max_retries, attempt, shown, pending, result,
                    track, tally, held >>
    /\ UNCHANGED << vars, scraperVars, triggerVars, solverVars, connectVars >>

\* delete_all() while the table holds m records: table.all(), "return 0"
\* when there is none
DeleteAllCall ==
    /\ Ready
    /\ \E m \in Sizes, ok \in BOOLEAN :
         /\ a_call' = [op |-> "delete_all", n |-> IF ok THEN m ELSE 0, docs |-> FALSE,
                       item |-> NoItem]
         /\ a_store' = [records |-> m, rec |-> NoRec]
         /\ a_log' = [NoLog EXCEPT !.before = [records |-> m, rec |-> NoRec]]
         /\ a_loop' = NoLoop
         /\ IF ~ok THEN
                 /\ a_pc' = "raised"
                 /\ a_return' = Raised
            ELSE IF m = 0 THEN
                 /\ a_pc' = "returned"
                 /\ a_return' = Value(0)
            ELSE
                 /\ a_pc' = "batch"
                 /\ a_return' = NoReturn
    /\ UNCHANGED << vars, scraperVars, fetcherVars, triggerVars, solverVars, connectVars >>

\* One turn of the batch loop of delete_all: table.batch_delete(batch),
\* deleted_count += len(batch)
BatchDelete ==
    /\ a_pc = "batch"
    /\ a_call.op = "delete_all"
    /\ \E ok \in BOOLEAN :
         LET b == batch(a_loop.i, a_call.n)
             size == b.hi - b.lo
             next == after_batch(ok, a_loop.i, a_call.n)
         IN
         /\ a_log' = [a_log EXCEPT !.batches = Append(@, [lo |-> b.lo, hi |-> b.hi, ok |-> ok])]
         /\ a_store' = IF ok THEN [a_store EXCEPT !.records = @ - size] ELSE a_store
         /\ a_loop' = [a_loop EXCEPT !.count = IF ok THEN @ + size ELSE @,
                                     !.i = IF next = "batch" THEN @ + batch_size ELSE @,
                                     !.raising = next = "raise"]
         /\ a_pc' = IF next = "raise" THEN "raised"
                    ELSE IF next = "batch" THEN "batch" ELSE "returned"
         /\ a_return' = IF next = "raise" THEN Raised
                        ELSE IF next = "batch" THEN a_return ELSE Value(a_loop'.count)
    /\ UNCHANGED a_call
    /\ UNCHANGED << vars, scraperVars, fetcherVars, triggerVars, solverVars, connectVars >>

\* update_item(item) of an adapter that fetches documents,
\* _update_item_async: the lookup, "return False" when nothing is found,
\* table.update(record_id, record_data); an exception gives False
UpdateItemCall ==
    /\ Ready
    /\ \E stored \in StoredRecs, item \in Items, lookup \in Lookups, ok \in BOOLEAN :
         /\ lookup # "found" => ok
         /\ a_call' = [op |-> "update_item", n |-> 1, docs |-> TRUE, item |-> item]
         /\ a_log' = [NoLog EXCEPT !.before = [records |-> 1, rec |-> stored],
                                   !.lookup = lookup]
         /\ a_loop' = NoLoop
         /\ IF lookup = "found" /\ ok THEN
                 /\ a_store' = [records |-> 1, rec |-> written(stored, item)]
                 /\ a_pc' = "has_docs"
                 /\ a_return' = NoReturn
            ELSE
                 /\ a_store' = [records |-> 1, rec |-> stored]
                 /\ a_pc' = "returned"
                 /\ a_return' = Value(0)
    /\ UNCHANGED << vars, scraperVars, fetcherVars, triggerVars, solverVars, connectVars >>

\* _fetch_and_upload_document(is_new=False) up to the fetch:
\* _has_cola_documents, then _has_fields_changed when both attachment
\* fields are filled; "return True" when nothing changed
CheckDocuments ==
    /\ a_pc = "has_docs"
    /\ \E got \in BOOLEAN, lookup \in Lookups :
         LET has == has_cola_documents(a_store.rec, got)
             both == has[1] /\ has[2]
         IN
         /\ ~both => lookup = "found"
         /\ IF both /\ ~has_fields_changed(lookup, a_store.rec, record_of(a_call.item)) THEN
                 /\ a_pc' = "returned"
                 /\ a_return' = Value(1)
            ELSE
                 /\ a_pc' = "docs"
                 /\ UNCHANGED a_return
         /\ a_log' = [a_log EXCEPT !.lookup = IF both THEN lookup ELSE "none"]
    /\ UNCHANGED << a_call, a_loop, a_store >>
    /\ UNCHANGED << vars, scraperVars, fetcherVars, triggerVars, solverVars, connectVars >>

\* _has_fields_changed(ttb_id, new_item) against a stored record
HasFieldsChangedCall ==
    /\ Ready
    /\ \E stored \in StoredRecs, item \in Items, lookup \in Lookups :
         /\ a_call' = [op |-> "has_fields_changed", n |-> 1, docs |-> TRUE, item |-> item]
         /\ a_log' = [NoLog EXCEPT !.before = [records |-> 1, rec |-> stored],
                                   !.lookup = lookup]
         /\ a_store' = [records |-> 1, rec |-> stored]
         /\ a_return' = Value(IF has_fields_changed(lookup, stored, record_of(item))
                              THEN 1 ELSE 0)
    /\ a_loop' = NoLoop
    /\ a_pc' = "returned"
    /\ UNCHANGED << vars, scraperVars, fetcherVars, triggerVars, solverVars, connectVars >>

AdapterNext ==
    \/ CreateItemsCall
    \/ Connect
    \/ BatchCreate
    \/ DocFetchStart
    \/ OpenPage
    \/ Goto
    \/ Check
    \/ Solve
    \/ Submit
    \/ Render
    \/ Close
    \/ DocFetched
    \/ Disconnect
    \/ DeleteAllCall
    \/ BatchDelete
    \/ UpdateItemCall
    \/ CheckDocuments
    \/ HasFieldsChangedCall

AdapterSpec == AdapterInit /\ [][AdapterNext]_allVars

\* ======================================= api/cron.py: the triggers of a sync
\* HTTP methods of the /api/cron route
Methods == {"GET", "POST"}

\* the jobs that were handed over and have not ended
Active == { j \in 1..MaxJobs : jobs[j].pc \in {"queued", "running", "syncing"} }

\* the jobs whose run_sync_job() is executing
Running == { j \in 1..MaxJobs : jobs[j].pc \in {"running", "syncing"} }

\* the next job of the behaviour
Unused == { j \in 1..MaxJobs : jobs[j].via = "none" }

\* start_background_sync: the job is added to the background tasks when the
\* required environment variables are set; the jobs already active are not
\* looked at
accepts(env_ok, active) == env_ok

TriggerInit == OthersIdle

\* GET or POST /api/cron: start_background_sync answers 202 after
\* background_tasks.add_task(run_sync_job), or 500 when a variable is missing
CronRequest ==
    /\ Unused # {}
    /\ \E method \in Methods, env_ok \in BOOLEAN :
         jobs' = [jobs EXCEPT ![Min(Unused)] =
                     [via |-> method,
                      pc |-> IF accepts(env_ok, Active) THEN "queued" ELSE "rejected"]]
    /\ UNCHANGED users
    /\ UNCHANGED << vars, scraperVars, fetcherVars, adapterVars, solverVars, connectVars >>

\* The cron trigger of the scheduler fires job "ttb_cola_sync"; the
\* scheduler runs one instance of a job at a time (add_job is called without
\* max_instances) and does not know of the background tasks
ScheduledRun ==
    /\ Unused # {}
    /\ \A j \in Active : jobs[j].via # "schedule"
    /\ jobs' = [jobs EXCEPT ![Min(Unused)] = [via |-> "schedule", pc |-> "queued"]]
    /\ UNCHANGED users
    /\ UNCHANGED << vars, scraperVars, fetcherVars, adapterVars, solverVars, connectVars >>

\* a worker thread enters run_sync_job()
JobStart(j) ==
    /\ jobs[j].pc = "queued"
    /\ jobs' = [jobs EXCEPT ![j].pc = "running"]
    /\ UNCHANGED users
    /\ UNCHANGED << vars, scraperVars, fetcherVars, adapterVars, solverVars, connectVars >>

\* run_sync_job(): TTBScraper(product_names=..., delay_between_requests=...)
\* raises TypeError, which "except Exception" logs; were the scraper
\* constructed, strategy.sync() would scrape inside "with get_http_client()"
\* and then end
JobStep(j) ==
    /\ jobs[j].pc \in {"running", "syncing"}
    /\ IF jobs[j].pc = "running" /\ TTBScraper_init(CronKwargs) THEN
            /\ jobs' = [jobs EXCEPT ![j].pc = "syncing"]
            /\ users' = users \cup {j}
       ELSE
            /\ jobs' = [jobs EXCEPT ![j].pc = "ended"]
            /\ users' = users \ {j}
    /\ UNCHANGED << vars, scraperVars, fetcherVars, adapterVars, solverVars, connectVars >>

TriggerNext ==
    \/ CronRequest
    \/ ScheduledRun
    \/ \E j \in 1..MaxJobs : JobStart(j)
    \/ \E j \in 1..MaxJobs : JobStep(j)

TriggerSpec == TriggerInit /\ [][TriggerNext]_allVars

\* ================================== TwoCaptchaSolver.solve_image_captcha()
\* max_attempts = 60  # 2 minutes max
max_attempts == 60
\* await asyncio.sleep(2)
poll_delay == 2

\* the image_base64 argument: plain base64, a data URI, or a text that
\* starts with "data:image" and has no comma
Images == {"base64", "data_uri", "data_uri_no_comma"}
\* POST in.php: the request or response.json() raises, status is not 1, or
\* the captcha is accepted
SubmitReplies == {"raise", "rejected", "accepted"}
\* GET res.php: status 1, request CAPCHA_NOT_READY, another answer, or the
\* request or response.json() raises
PollReplies == {"ready", "not_ready", "error", "raise"}

\* image_base64.split(',', 1)[1] when the text starts with "data:image",
\* before the try: IndexError when there is no comma
strip_prefix(image) == IF image = "data_uri_no_comma" THEN "raise" ELSE "base64"

\* Mutant: a captcha that is not ready yet ends the polling
poll_verdict_strict(reply) ==
    IF reply = "ready" THEN "text" ELSE "None"

\* The branches after a poll: return captcha_text, continue, return None;
\* "except Exception: return None"
poll_verdict(reply) ==
    IF reply = "ready" THEN "text"
    ELSE IF reply = "not_ready" THEN "continue"
    ELSE "None"

SolverInit == OthersIdle

\* solve_image_captcha(image_base64) is called: the prefix is removed
SolveStart ==
    /\ v_pc = "idle"
    /\ \E image \in Images :
         /\ v_log' = [NoPolls EXCEPT !.image = image]
         /\ IF strip_prefix(image) = "raise" THEN
                 /\ v_pc' = "returned"
                 /\ v_result' = "raised"
            ELSE
                 /\ v_pc' = "submit"
                 /\ v_result' = "none"
    /\ v_attempt' = 0
    /\ UNCHANGED << vars, scraperVars, fetcherVars, adapterVars, triggerVars, connectVars >>

\* POST in.php; "return None" unless status is 1; then the first turn of
\* the polling loop
SubmitCaptcha ==
    /\ v_pc = "submit"
    /\ \E reply \in SubmitReplies :
         IF reply = "accepted" /\ in_range(0, max_attempts) THEN
              /\ v_pc' = "sleep"
              /\ UNCHANGED v_result
         ELSE
              /\ v_pc' = "returned"
              /\ v_result' = "None"
    /\ UNCHANGED << v_attempt, v_log >>
    /\ UNCHANGED << vars, scraperVars, fetcherVars, adapterVars, triggerVars, connectVars >>

\* await asyncio.sleep(2) at the head of a loop turn
PollSleep ==
    /\ v_pc = "sleep"
    /\ v_log' = [v_log EXCEPT !.slept = @ + poll_delay]
    /\ v_pc' = "poll"
    /\ UNCHANGED << v_attempt, v_result >>
    /\ UNCHANGED << vars, scraperVars, fetcherVars, adapterVars, triggerVars, connectVars >>

\* GET res.php and the branches on its answer; after "continue" the next
\* turn, or "Captcha solving timed out" when the loop is over
Poll ==
    /\ v_pc = "poll"
    /\ \E reply \in PollReplies :
         /\ v_log' = [v_log EXCEPT !.polls = @ + 1, !.last = reply]
         /\ IF poll_verdict(reply) = "continue" THEN
                 IF in_range(v_attempt + 1, max_attempts) THEN
                      /\ v_attempt' = v_attempt + 1
                      /\ v_pc' = "sleep"
                      /\ UNCHANGED v_result
                 ELSE
                      /\ v_pc' = "returned"
                      /\ v_result' = "None"
                      /\ UNCHANGED v_attempt
            ELSE
                 /\ v_pc' = "returned"
                 /\ v_result' = poll_verdict(reply)
                 /\ UNCHANGED v_attempt
    /\ UNCHANGED << vars, scraperVars, fetcherVars, adapterVars, triggerVars, connectVars >>

SolverNext ==
    \/ SolveStart
    \/ SubmitCaptcha
    \/ PollSleep
    \/ Poll

SolverSpec == SolverInit /\ [][SolverNext]_allVars

\* ================ ColaDocumentFetcher._connect_to_browserless_with_retry()
\* values of max_retries (5 is the default) and of initial_timeout (60000 ms
\* is the default)
RetryBudgets == {0, 1, 2, 3, 5, 6, 7}
InitialTimeouts == {1000, 30000, 60000}
\* (attempt - 1) * 30000
timeout_step == 30000
\* min(2 ** attempt, 30)
backoff_cap == 30

RECURSIVE Pow2(_)
\* 2 ** k
Pow2(k) == IF k = 0 THEN 1 ELSE 2 * Pow2(k - 1)

\* timeout = initial_timeout + (attempt - 1) * 30000
attempt_timeout(initial_timeout, k) == initial_timeout + (k - 1) * timeout_step

\* Mutant: the backoff is not capped
wait_time_uncapped(k) == Pow2(k)

\* wait_time = min(2 ** attempt, 30)
wait_time(k) == Min({Pow2(k), backoff_cap})

\* Mutant: the call waits after its last attempt too
waits_always(k, n) == TRUE

\* "if attempt < max_retries": there is a wait after the failed attempt k
waits(k, n) == k < n

ConnectInit == OthersIdle

\* _connect_to_browserless_with_retry(max_retries, initial_timeout) is
\* called; with no attempt to make the loop is over at once
ConnectCall ==
    /\ c_pc = "idle"
    /\ \E n \in RetryBudgets, t \in InitialTimeouts :
         /\ c_call' = [max_retries |-> n, initial_timeout |-> t]
         /\ IF 1 <= n THEN
                 /\ c_pc' = "attempt"
                 /\ c_result' = "none"
            ELSE
                 /\ c_pc' = "returned"
                 /\ c_result' = "ConnectionError"
    /\ c_attempt' = 1
    /\ c_log' = <<>>
    /\ UNCHANGED << vars, scraperVars, fetcherVars, adapterVars, triggerVars, solverVars >>

\* One turn of the loop: playwright start, connect_over_cdp with the
\* timeout of the attempt, the context; "return" on success; on an
\* exception playwright.stop(), the wait when another attempt follows, and
\* after the last attempt "raise ConnectionError"
ConnectAttempt ==
    /\ c_pc = "attempt"
    /\ \E ok \in BOOLEAN :
         LET waited == IF ~ok /\ waits(c_attempt, c_call.max_retries)
                       THEN wait_time(c_attempt) ELSE 0
         IN
         /\ c_log' = Append(c_log,
                            [attempt |-> c_attempt,
                             timeout |-> attempt_timeout(c_call.initial_timeout, c_attempt),
                             ok |-> ok,
                             wait |-> waited])
         /\ IF ok THEN
                 /\ c_pc' = "returned"
                 /\ c_result' = "session"
                 /\ UNCHANGED c_attempt
            ELSE IF c_attempt + 1 <= c_call.max_retries THEN
                 /\ c_attempt' = c_attempt + 1
                 /\ UNCHANGED << c_pc, c_result >>
            ELSE
                 /\ c_pc' = "returned"
                 /\ c_result' = "ConnectionError"
                 /\ UNCHANGED c_attempt
    /\ UNCHANGED c_call
    /\ UNCHANGED << vars, scraperVars, fetcherVars, adapterVars, triggerVars, solverVars >>

ConnectNext ==
    \/ ConnectCall
    \/ ConnectAttempt

ConnectSpec == ConnectInit /\ [][ConnectNext]_allVars

\* =================================================================== claims
\* the calls of this run to one collaborator operation, in order
CallsOf(op) == SelectSeq(calls, LAMBDA c : c.op = op)

\* the items this run handed to create_items (none when it made no call)
CreatedArg == IF CallsOf("create_items") = <<>> THEN <<>> ELSE CallsOf("create_items")[1].items

\* the ids this run handed to mark_as_deprecated (none when it made no call)
DeprecatedArg ==
    IF CallsOf("mark_as_deprecated") = <<>> THEN {} ELSE CallsOf("mark_as_deprecated")[1].ids

\* the items this run handed to update_item, call by call
UpdateArgs == [i \in DOMAIN CallsOf("update_item") |-> CallsOf("update_item")[i].items[1]]

\* positions of the scraped items whose identifier is / is not in existing_ids
Present == { j \in DOMAIN items : items[j].ttb_id \in existing_ids }
Absent == { j \in DOMAIN items : items[j].ttb_id \notin existing_ids }

\* s is an initial part of t
IsPrefix(s, t) == Len(s) <= Len(t) /\ SubSeq(t, 1, Len(s)) = s

\* the run has passed the create step of the incremental / full strategy
PastCreate == pc \in {"mark_as_deprecated", "update_item", "done", "raised", "idle"}

\* C1: in an incremental run, the items passed to create_items are exactly
\* the scraped items whose identifier is not in the set get_existing_ids()
\* returned: no created identifier is in it, every scraped item absent from
\* it is created, once, in scrape order.
C1_CreatedExactlyAbsent ==
    (strategy = "incremental" /\ PastCreate) =>
        /\ Len(CallsOf("create_items")) <= 1
        /\ \A i \in DOMAIN CreatedArg : CreatedArg[i].ttb_id \notin existing_ids
        /\ \A j \in Absent : \E i \in DOMAIN CreatedArg : CreatedArg[i] = items[j]
        /\ Len(CreatedArg) = Cardinality(Absent)
        /\ \A i, k \in DOMAIN CreatedArg :
              i < k => \E j, l \in Absent :
                          j < l /\ items[j] = CreatedArg[i] /\ items[l] = CreatedArg[k]

\* C1 witness: an incremental run created some scraped items and left out
\* another one whose identifier exists.
C1_Witness ==
    /\ strategy = "incremental"
    /\ pc = "done"
    /\ CreatedArg # <<>>
    /\ Present # {}

\* C2, as claimed: for every scrape result, the empty one included, a
\* completed incremental run passes to mark_as_deprecated exactly the
\* identifiers existing in storage before the run minus the scraped ones.
C2_DeprecatedIsDifference ==
    (strategy = "incremental" /\ pc = "done") =>
        DeprecatedArg =
            (IF CallsOf("get_existing_ids") = <<>> THEN get_existing_ids(table0)
             ELSE existing_ids) \ scraped_ids_of(items)

\* C2, amended: for every non-empty scrape result, an incremental run that
\* returns passes to mark_as_deprecated exactly existing_ids minus
\* scraped_ids, in one call, and makes no call when that set is empty; with
\* an empty scrape it reads nothing from storage and deprecates nothing.
C2_DeprecatedIsDifferenceNonEmpty ==
    (strategy = "incremental" /\ pc = "done") =>
        /\ Len(CallsOf("mark_as_deprecated")) <= 1
        /\ items # <<>> =>
              /\ DeprecatedArg = existing_ids \ scraped_ids_of(items)
              /\ (CallsOf("mark_as_deprecated") = <<>>) = (existing_ids \subseteq scraped_ids_of(items))
        /\ items = <<>> =>
              /\ CallsOf("get_existing_ids") = <<>>
              /\ CallsOf("mark_as_deprecated") = <<>>

\* C2 witness: an incremental run deprecated an existing identifier absent
\* from the scrape and kept one that was scraped.
C2_Witness ==
    /\ strategy = "incremental"
    /\ pc = "done"
    /\ DeprecatedArg # {}
    /\ Present # {}

\* C3: the statistics of an incremental run: skipped is the number of
\* scraped items whose identifier is in the existing set, total the number
\* of scraped items, new what create_items reported, and total = new +
\* skipped when create_items reported every new item as created.
C3_Statistics ==
    (strategy = "incremental" /\ pc = "done") =>
        /\ stats.skipped = Cardinality(Present)
        /\ stats.total = Len(items)
        /\ stats.new = counts.created
        /\ counts.created = Len(CreatedArg) => stats.total = stats.new + stats.skipped

\* C3 witness: scrape ["1", "2"] against the store {"2", "3"} gives
\* created = ["1"], deprecated = {"3"}, skipped = 1.
C3_Witness ==
    /\ strategy = "incremental"
    /\ pc = "done"
    /\ [i \in DOMAIN items |-> items[i].ttb_id] = << <<1>>, <<2>> >>
    /\ existing_ids = { <<2>>, <<3>> }
    /\ [i \in DOMAIN CreatedArg |-> CreatedArg[i].ttb_id] = << <<1>> >>
    /\ DeprecatedArg = { <<3>> }
    /\ stats = [total |-> 2, new |-> 1, skipped |-> 1, deprecated |-> 1]

\* this run and the run before it are incremental runs that returned, no
\* storage request of either failed, and the source did not change between
SecondOfTwoIncremental ==
    /\ strategy = "incremental"
    /\ pc = "done"
    /\ clean
    /\ prev.strategy = "incremental"
    /\ prev.result = "done"
    /\ prev.clean
    /\ prev.unchanged

\* C4, as claimed: the second of two incremental runs in succession against
\* an unchanged source reports new = 0 (all items already exist), and
\* deprecated = 0 if nothing vanished (read in the claim's favour: if every
\* identifier storage reports is in the scrape).
C4_SecondRunIdempotent ==
    SecondOfTwoIncremental =>
        /\ stats.new = 0
        /\ existing_ids \subseteq scraped_ids_of(items) => stats.deprecated = 0

\* C5, as claimed: an item created in storage is reported by a later
\* get_existing_ids() under the identifier it was created with.
C5_RoundTrip ==
    (pc = "create_items" /\ strategy \in {"incremental", "full"}
        /\ calls[Len(calls)].ok /\ prev.result \in {"done", "raised"}) =>
        prev.created \subseteq existing_ids

\* C6: in a run of the replace strategy delete_all is called exactly once,
\* as the first call: before the scrape and before any create_items call.
C6_DeleteOnceFirst ==
    strategy = "replace" =>
        IF pc = "delete_all" THEN calls = <<>>
        ELSE /\ calls # <<>>
             /\ calls[1].op = "delete_all"
             /\ Len(CallsOf("delete_all")) = 1
             /\ pc = "done" => (Len(calls) >= 2 /\ calls[2].op = "scrape")
             /\ \A i \in DOMAIN calls :
                   calls[i].op = "create_items" => (i = 3 /\ calls[2].op = "scrape")

\* C6 witness: a replace run deleted, then scraped, then created.
C6_Witness ==
    /\ strategy = "replace"
    /\ pc = "done"
    /\ [i \in DOMAIN calls |-> calls[i].op] = <<"delete_all", "scrape", "create_items">>

\* C7: through the entry points, the replace strategy is selected only by
\* main and only when SYNC_STRATEGY is replace and CONFIRM_REPLACE is true,
\* and no run launched through an entry point calls delete_all otherwise.
C7_ReplaceOnlyConfirmed ==
    /\ launch.selects = "replace" =>
          (launch.entry = "main" /\ launch.replace /\ launch.confirmed)
    /\ (launch.entry \in {"main", "cron"} /\ CallsOf("delete_all") # <<>>) =>
          (launch.entry = "main" /\ launch.replace /\ launch.confirmed)

\* C7 witness: main launched with SYNC_STRATEGY=replace and without
\* CONFIRM_REPLACE=true has ended; its selection refuses, sync() was not
\* entered and storage was not touched.
C7_Witness ==
    /\ launch.entry = "main"
    /\ launch.replace
    /\ ~launch.confirmed
    /\ launch.selects = "refused"
    /\ pc = "exited"
    /\ calls = <<>>
    /\ table = table0
    /\ table # <<>>

\* C8: a full run hands exactly the scraped items whose identifier is not in
\* the existing set to create_items, calls update_item once for every
\* scraped item whose identifier is in it, in scrape order, and reports as
\* updated the number of those calls that returned true.
C8_FullPartition ==
    strategy = "full" =>
        /\ IsPrefix(UpdateArgs, existing_items_of(items, existing_ids))
        /\ Len(UpdateArgs) <= Cardinality(Present)
        /\ \A i \in DOMAIN UpdateArgs : UpdateArgs[i].ttb_id \in existing_ids
        /\ pc = "done" =>
              /\ Len(UpdateArgs) = Cardinality(Present)
              /\ \A j \in Present : \E i \in DOMAIN UpdateArgs : UpdateArgs[i] = items[j]
              /\ Len(CreatedArg) = Cardinality(Absent)
              /\ \A i \in DOMAIN CreatedArg : CreatedArg[i].ttb_id \notin existing_ids
              /\ \A j \in Absent : \E i \in DOMAIN CreatedArg : CreatedArg[i] = items[j]
              /\ stats.updated = Len(SelectSeq(CallsOf("update_item"), LAMBDA c : c.ok))
              /\ stats.new = Len(CreatedArg)
              /\ stats.total = Len(items)

\* C8 witness: a full run created a new item and updated an existing one.
C8_Witness ==
    /\ strategy = "full"
    /\ pc = "done"
    /\ CreatedArg # <<>>
    /\ stats.updated >= 1

\* C9: an incremental run never calls update_item or delete_all, passes no
\* item whose identifier is in the existing set to create_items, and leaves
\* every field but the deprecation flag of every stored record as it was.
C9_IncrementalNoUpdate ==
    strategy = "incremental" =>
        /\ CallsOf("update_item") = <<>>
        /\ CallsOf("delete_all") = <<>>
        /\ \A i \in DOMAIN CreatedArg : CreatedArg[i].ttb_id \notin existing_ids
        /\ Len(table) >= Len(table0)
        /\ \A i \in DOMAIN table0 :
              table[i].ttb = table0[i].ttb /\ table[i].data = table0[i].data

\* C9 witness: an incremental run scraped an item whose identifier is
\* stored with other field values, and returned.
C9_Witness ==
    /\ strategy = "incremental"
    /\ pc = "done"
    /\ \E j \in Present : \E i \in DOMAIN table0 :
          /\ table0[i].ttb = int(items[j].ttb_id)
          /\ table0[i].data # items[j].data

\* C10: a full run never calls mark_as_deprecated or delete_all, and every
\* stored record whose identifier is absent from the scrape stays as it was.
C10_FullNoDeprecation ==
    strategy = "full" =>
        /\ CallsOf("mark_as_deprecated") = <<>>
        /\ CallsOf("delete_all") = <<>>
        /\ Len(table) >= Len(table0)
        /\ \A i \in DOMAIN table0 :
              (Truthy(table0[i].ttb) /\ str(table0[i].ttb) \notin scraped_ids_of(items))
                  => table[i] = table0[i]

\* C10 witness: a full run updated a stored record while another stored
\* identifier was absent from the scrape.
C10_Witness ==
    /\ strategy = "full"
    /\ pc = "done"
    /\ stats.updated >= 1
    /\ get_existing_ids(table0) \ scraped_ids_of(items) # {}

\* ------------------------------------------------- claims about scrape()
\* how often x occurs in a sequence
CountOf(s, x) == Len(SelectSeq(s, LAMBDA e : e = x))

\* the position of the last page request among the events (0: none yet)
LastPageAt ==
    IF \E i \in DOMAIN events : events[i] = "page"
    THEN CHOOSE i \in DOMAIN events :
            events[i] = "page" /\ \A j \in DOMAIN events : events[j] = "page" => j <= i
    ELSE 0

\* the events after the last page request
SinceLastPage == SubSeq(events, LastPageAt + 1, Len(events))

\* the pagination of page response r reports a range "X to Y of Z" with
\* Y >= Z: it is the first range in the page's pagination divs, and no div
\* before it holds a Next link
ReportsLastRange(r) ==
    \E k \in DOMAIN r.divs :
        /\ r.divs[k].range # NoRange
        /\ r.divs[k].range[2] >= r.divs[k].range[3]
        /\ \A j \in 1..(k - 1) : r.divs[j].range = NoRange /\ ~r.divs[j].next

C12_DuplicatePageStops ==
    \A i \in DOMAIN responses :
        (/\ responses[i].status = 200
         /\ responses[i].rows # <<>>
         /\ \A j \in DOMAIN responses[i].rows :
               responses[i].rows[j] \in responses[i].collected) =>
            /\ i = Len(responses)
            /\ s_pc \in {"enrich", "returned"}
            /\ new_items = <<>>
            /\ SinceLastPage = <<>>
            /\ Len(all_results) = responses[i].count

\* C12 witness: page 2 repeats the row of page 1 and announces more pages;
\* scrape() has returned with the one item of page 1.
C12_Witness ==
    /\ s_pc = "returned"
    /\ Len(responses) = 2
    /\ responses[2].rows = << <<1>> >>
    /\ <<1>> \in responses[2].collected
    /\ has_next_page(responses[2].divs)
    /\ Len(all_results) = 1

\* C13, as claimed: the list scrape() builds never holds two items with the
\* same identifier.
C13_NoDuplicateIds ==
    \A i, j \in DOMAIN all_results :
        i # j => all_results[i].ttb_id # all_results[j].ttb_id

\* C14, as claimed: between every two consecutive HTTP requests of scrape()
\* (page or detail) there is a sleep.
C14_DelayBetweenRequests ==
    \A i \in DOMAIN events :
        (i < Len(events) /\ events[i] # "sleep") => events[i + 1] = "sleep"

\* C15: a page response with a status other than 200 is the last page
\* requested; scrape() returns, without raising, exactly the items it had
\* collected from the pages before.
C15_FailedPageEndsScrape ==
    \A i \in DOMAIN responses :
        responses[i].status \notin {0, 200} =>
            /\ i = Len(responses)
            /\ s_pc = "returned"
            /\ SinceLastPage = <<>>
            /\ Len(all_results) = responses[i].count
            /\ result_ids(all_results) = responses[i].collected
            /\ \A k \in DOMAIN all_results : all_results[k].list < i

\* C15 witness: page 1 gave an item, page 2 answered with status 500, and
\* scrape() returned the item.
C15_Witness ==
    /\ s_pc = "returned"
    /\ Len(responses) = 2
    /\ responses[2].status = 500
    /\ Len(all_results) >= 1

\* the items of all_results that came from page i, detail fields left out
PageItems(i) ==
    LET its == SelectSeq(all_results, LAMBDA it : it.list = i)
    IN [k \in DOMAIN its |-> Row(its[k].ttb_id, its[k].list)]

\* the rows of page i that were not yet collected when it was fetched
NewRows(i) ==
    SelectSeq([j \in DOMAIN responses[i].rows |-> Row(responses[i].rows[j], i)],
              LAMBDA it : it.ttb_id \notin responses[i].collected)

\* C16: whatever the outcome of a detail request (status other than 200,
\* network error, parse error), the row's item is in all_results with its
\* identifier and list-page fields: every detail request added one item,
\* each page handled contributed all its new rows in order, and scrape()
\* raises only when a page request raised.
C16_DetailFailureKeepsItem ==
    /\ Len(all_results) = CountOf(events, "detail")
    /\ \A k \in DOMAIN all_results : all_results[k].list \in DOMAIN responses
    /\ \A i \in DOMAIN responses :
          (i < Len(responses) \/ s_pc = "returned") => PageItems(i) = NewRows(i)
    /\ s_pc = "raised" => responses[Len(responses)].status = 0

\* C16 witness: the detail request of the row of page 1 failed; the item is
\* returned without details, followed by an enriched item from page 2.
C16_Witness ==
    /\ s_pc = "returned"
    /\ Len(all_results) = 2
    /\ all_results[1].details = "none"
    /\ all_results[1].list = 1
    /\ all_results[2].details = "full"
    /\ all_results[2].list = 2

\* ------------------------------------- claims about fetch_document_pdf()
\* the last fetch state passed ("none" before navigation)
LastState == IF track = <<>> THEN "none" ELSE track[Len(track)]

\* C17: a fetch that reaches the document page by resubmitting a captcha
\* answer has passed CAPTCHA_PRESENT, SOLVING, RESUBMITTED, DOCUMENT_READY in
\* this order; the PDF is rendered only on a page detected as the document
\* page, and it is what the fetch returns unless a later step raises.
C17_CaptchaPathReturnsPdf ==
    /\ \A i \in DOMAIN track :
          (track[i] = "DOCUMENT_READY" /\ i > 1 /\ track[i - 1] = "RESUBMITTED") =>
              /\ i > 3
              /\ track[i - 2] = "SOLVING"
              /\ track[i - 3] = "CAPTCHA_PRESENT"
    /\ f_pc = "render" => (LastState = "DOCUMENT_READY" /\ shown = "document")
    /\ pending = "pdf" => (LastState = "DOCUMENT_READY" /\ shown = "document")
    /\ result = "pdf" => pending = "pdf"
    /\ (f_pc = "returned" /\ LastState = "DOCUMENT_READY" /\ tally.broke = "none") =>
          result = "pdf"

\* C17 witness: navigation landed on the captcha, the solver gave a text,
\* the resubmitted page was the document, and the fetch returned the PDF.
C17_Witness ==
    /\ f_pc = "returned"
    /\ track = <<"NAVIGATED", "CAPTCHA_PRESENT", "SOLVING", "RESUBMITTED", "DOCUMENT_READY">>
    /\ tally.solved = 1
    /\ tally.submits = 1
    /\ result = "pdf"

\* C18: fetch_document_pdf never raises, and it returns None whenever the
\* document page was not reached: solver never succeeding, connection
\* failure, navigation timeout, submit error, page-close error.
C18_NoResultNeverRaises ==
    /\ result \in {"none", "pdf", "None"}
    /\ f_pc = "returned" =>
          /\ result \in {"pdf", "None"}
          /\ LastState # "DOCUMENT_READY" => result = "None"
          /\ tally.broke # "none" => result = "None"

\* C18 witness: the solver never gave a text in any of the two turns, no
\* answer was submitted, and the fetch returned None.
C18_Witness ==
    /\ f_pc = "returned"
    /\ max_retries = 2
    /\ tally.solved = 2
    /\ tally.submits = 0
    /\ tally.broke = "none"
    /\ LastState = "FAILED"
    /\ result = "None"

\* C19, as claimed: when the first detection check after navigation sees
\* neither a captcha challenge (prompt plus image) nor a document landmark,
\* the fetch does not fail before the detection check has run again.
C19_NeitherIsRetried ==
    (tally.first \in {"neither", "prompt"} /\ LastState = "FAILED") => tally.checks >= 2

\* C20: in one fetch the solver is called at most max_retries times and an
\* answer is submitted at most max_retries times (so is the detection
\* check); when the turns are used up the fetch returns None, and the
\* persistent browser session is as it was.
C20_CaptchaCycleBounded ==
    /\ attempt <= max_retries
    /\ tally.checks <= max_retries
    /\ tally.solved <= max_retries
    /\ tally.submits <= max_retries
    /\ tally.submits <= tally.solved
    /\ tally.solved <= tally.checks
    /\ (f_pc = "returned" /\ attempt = max_retries /\ LastState = "FAILED") =>
          (result = "None" /\ browser = session)

\* C20 witness: with max_retries = 2 and a persistent session, two answers
\* were submitted, the document page was not reached, the fetch returned
\* None and the session is still connected.
C20_Witness ==
    /\ f_pc = "returned"
    /\ max_retries = 2
    /\ attempt = 2
    /\ tally.solved = 2
    /\ tally.submits = 2
    /\ result = "None"
    /\ session
    /\ browser

\* C21, as claimed: when fetch_document_pdf is called without a persistent
\* session, every part of the temporary session it made (context, browser,
\* playwright) and its page have been released when it returns, whichever
\* step raised.
C21_TemporarySessionReleased ==
    (f_pc = "returned" /\ ~session) => held = NoneHeld

\* a create_items call of an adapter that fetches documents
DocCreate == a_call.op = "create_items" /\ a_call.docs

\* C22: in a create_items call with document fetching, the browser
\* connection is opened at most once and, when it was opened, closed exactly
\* once: it is open while batches are created and documents fetched, and it
\* is closed when the call returns or raises (a batch_create failure or a
\* document that cannot be fetched included). An empty list and a failed
\* connection attempt open nothing.
C22_ConnectionOpenedAndClosedOnce ==
    DocCreate =>
        /\ a_log.opens <= 1
        /\ a_log.closes <= a_log.opens
        /\ a_pc \in {"batch", "docs", "fetching", "exit"} =>
              a_log.opens = 1 /\ a_log.closes = 0 /\ browser
        /\ a_pc \in {"returned", "raised"} =>
              /\ a_log.closes = a_log.opens
              /\ ~browser
              /\ a_log.batches # <<>> => a_log.opens = 1
              /\ (a_return.kind = "value" /\ a_call.n > 0) => a_log.opens = 1

\* C22 witness: eleven items; the first batch was created and its ten
\* documents fetched, the second batch_create raised, and the call raised
\* with the connection opened once and closed once.
C22_Witness ==
    /\ DocCreate
    /\ a_pc = "raised"
    /\ a_call.n = 11
    /\ Len(a_log.batches) = 2
    /\ ~a_log.batches[2].ok
    /\ a_log.fetches = 10
    /\ a_log.opens = 1
    /\ a_log.closes = 1
    /\ ~browser

\* C23: in a create_items call with document fetching the documents are
\* fetched one at a time on the one browser context: at most one page is
\* open, a page is open only while the fetch of the current identifier is
\* between new_page() and page.close(), and the fetch of an identifier
\* starts only when the fetches of all identifiers before it, in input
\* order, have ended with their page closed.
C23_OneFetchAtATime ==
    DocCreate =>
        /\ held.pages <= 1
        /\ held.pages = 1 =>
              a_pc = "fetching" /\ f_pc \in {"goto", "check", "solve", "submit", "render", "close"}
        /\ a_pc = "fetching" => a_log.fetches = a_loop.i + a_loop.idx + 1
        /\ a_pc = "docs" =>
              f_pc = "idle" /\ held.pages = 0 /\ a_log.fetches = a_loop.i + a_loop.idx
        /\ a_pc = "batch" =>
              f_pc = "idle" /\ held.pages = 0 /\ a_log.fetches = a_loop.i

\* C23 witness: the page of the second identifier is open, after the fetch
\* of the first one ended and closed its page.
C23_Witness ==
    /\ DocCreate
    /\ a_pc = "fetching"
    /\ a_log.fetches = 2
    /\ held.pages = 1
    /\ f_pc = "render"

\* a call that sends its records to storage in batches
Batched == a_call.op \in {"create_items", "delete_all"}

\* C25: every batch_create / batch_delete request of create_items and
\* delete_all carries at least one and at most ten records; the batches
\* follow the input order without gap or overlap, starting at the first
\* record; when the call returns, the batches covered every input record
\* once, the returned count is the number of input records, and storage
\* holds that many records more (create_items) or fewer (delete_all).
C25_BatchesOfTen ==
    Batched =>
        LET bs == a_log.batches IN
        /\ \A k \in DOMAIN bs : bs[k].hi - bs[k].lo \in 1..batch_size /\ bs[k].hi <= a_call.n
        /\ bs # <<>> => bs[1].lo = 0
        /\ \A k \in 1..(Len(bs) - 1) : bs[k + 1].lo = bs[k].hi
        /\ a_pc = "returned" =>
              /\ a_return = Value(a_call.n)
              /\ a_call.n = 0 => bs = <<>>
              /\ a_call.n > 0 => bs[Len(bs)].hi = a_call.n
              /\ a_store.records = IF a_call.op = "create_items"
                                   THEN a_log.before.records + a_call.n
                                   ELSE a_log.before.records - a_call.n

\* C25 witness: create_items with 21 items returned 21 after three batches
\* of 10, 10 and 1 records.
C25_Witness ==
    /\ a_call.op = "create_items"
    /\ a_pc = "returned"
    /\ a_call.n = 21
    /\ Len(a_log.batches) = 3
    /\ a_log.batches[3] = [lo |-> 20, hi |-> 21, ok |-> TRUE]
    /\ a_return = Value(21)

\* C26: when a batch request of create_items or delete_all fails, it is the
\* last batch request of the call, the call raises, no document is fetched
\* any more, and the records of the batches before it stay created
\* (create_items) or deleted (delete_all).
C26_BatchFailureReRaised ==
    Batched =>
        LET bs == a_log.batches IN
        \A k \in DOMAIN bs : ~bs[k].ok =>
            /\ k = Len(bs)
            /\ a_pc \in {"exit", "raised"}
            /\ a_pc = "raised" => a_return = Raised
            /\ a_loop.count = bs[k].lo
            /\ a_store.records = IF a_call.op = "create_items"
                                 THEN a_log.before.records + bs[k].lo
                                 ELSE a_log.before.records - bs[k].lo
            /\ a_call.docs => a_log.fetches = bs[k].lo

\* C26 witness: delete_all on 21 records; the first batch was deleted, the
\* second batch_delete failed, and the call raised with 11 records left.
C26_Witness ==
    /\ a_call.op = "delete_all"
    /\ a_pc = "raised"
    /\ a_call.n = 21
    /\ Len(a_log.batches) = 2
    /\ ~a_log.batches[2].ok
    /\ a_store.records = 11

\* C29: in a create_items call with document fetching, a document that
\* cannot be fetched or uploaded does not end the call: the call raises
\* only when the connection could not be opened or a batch_create failed,
\* and a call that returns has created every record and made one document
\* fetch for every item, however many of the documents were uploaded.
C29_DocumentFailureIsContained ==
    DocCreate =>
        /\ a_log.uploads <= a_log.fetches
        /\ a_loop.raising =>
              a_log.batches # <<>> /\ ~a_log.batches[Len(a_log.batches)].ok
        /\ a_pc = "raised" =>
              \/ a_log.opens = 0
              \/ a_log.batches # <<>> /\ ~a_log.batches[Len(a_log.batches)].ok
        /\ a_pc = "returned" =>
              /\ a_return = Value(a_call.n)
              /\ a_log.fetches = a_call.n
              /\ a_store.records = a_log.before.records + a_call.n

\* C29 witness: two items, both created by the one batch_create; the
\* document of the first one was not uploaded, and the fetch for the second
\* one was made all the same and has come back with the pdf.
C29_Witness ==
    /\ DocCreate
    /\ a_call.n = 2
    /\ a_store.records = a_log.before.records + 2
    /\ a_pc = "fetching"
    /\ a_log.fetches = 2
    /\ a_log.uploads = 0
    /\ f_pc = "returned"
    /\ result = "pdf"

\* "(old_value or new_value) and old_value != new_value" for some field of fs
Differs(old, new, fs) ==
    \E f \in fs : (Nonempty(old[f]) \/ Nonempty(new[f])) /\ old[f] # new[f]

\* the fields _item_to_record writes, other than "TTB ID" (the key of the
\* lookup), "Deprecated" and the attachment fields
SyncedFields == {"brand", "url"}

\* C28, as claimed: update_item with document fetching on a record that had
\* both attachments when the call was made: when a compared field of the
\* incoming item differs from the stored record, the document is fetched
\* again; when no compared field differs (and the record could be read), no
\* fetch is made.
C28_ChangedRecordRefetched ==
    ( /\ a_call.op = "update_item"
      /\ a_pc = "returned"
      /\ a_return = Value(1)
      /\ a_log.before.rec.cola > 0
      /\ a_log.before.rec.latest > 0 ) =>
        IF Differs(a_log.before.rec, record_of(a_call.item), fields_to_check)
        THEN a_log.fetches = 1
        ELSE a_log.lookup = "found" => a_log.fetches = 0

\* C30, as claimed: for a record that is found, _has_fields_changed reports
\* a change exactly when a synced field other than the deprecation flag and
\* the attachment fields differs (the URL included), None and the empty
\* string counting as equal.
C30_ChangeDetection ==
    ( /\ a_call.op = "has_fields_changed"
      /\ a_pc = "returned"
      /\ a_log.lookup = "found" ) =>
        (a_return = Value(1) <=> Differs(a_log.before.rec, record_of(a_call.item), SyncedFields))

\* the ids of a set for which storage now holds a record marked deprecated
NowDeprecated(ids) ==
    { id \in ids : \E i \in DOMAIN table : table[i].ttb = int(id) /\ table[i].deprecated }

\* the update_item calls of this run that returned True
UpdatesDone == SelectSeq(CallsOf("update_item"), LAMBDA c : c.ok)

\* C27: no strategy repeats a storage call: in one sync() create_items and
\* mark_as_deprecated are called at most once, and update_item once per
\* item of the update list, in its order. The counts of the statistics are
\* those of the mutations that went through: 'new' is the number of records
\* the run added to storage, 'deprecated' counts only ids whose record is
\* marked (all of them when no request failed), 'updated' is the number of
\* update_item calls that returned True, each with its record in storage.
C27_NoRetryVerifiedCounts ==
    /\ Len(CallsOf("create_items")) <= 1
    /\ Len(CallsOf("mark_as_deprecated")) <= 1
    /\ strategy = "full" => IsPrefix(UpdateArgs, existing_items_of(items, existing_ids))
    /\ strategy # "full" => CallsOf("update_item") = <<>>
    /\ (pc = "done" /\ strategy \in {"incremental", "full"}) =>
          /\ stats.new = Len(table) - Len(table0)
          /\ stats.new = Len(CreatedArg)
    /\ (pc = "done" /\ strategy = "incremental") =>
          /\ stats.deprecated <= Cardinality(NowDeprecated(DeprecatedArg))
          /\ (\A i \in DOMAIN calls : calls[i].ok) =>
                stats.deprecated = Cardinality(DeprecatedArg)
    /\ (pc = "done" /\ strategy = "full") =>
          /\ stats.updated = Len(UpdatesDone)
          /\ \A k \in DOMAIN UpdatesDone :
                \E i \in DOMAIN table : table[i].ttb = int(UpdatesDone[k].items[1].ttb_id)

\* C27 witness: an incremental run created one record and had two ids to
\* deprecate; the request for one of them failed, and the statistics say
\* new 1, deprecated 1.
C27_Witness ==
    /\ pc = "done"
    /\ strategy = "incremental"
    /\ Len(CallsOf("create_items")) = 1
    /\ Cardinality(DeprecatedArg) = 2
    /\ ~CallsOf("mark_as_deprecated")[1].ok
    /\ stats.new = 1
    /\ stats.deprecated = 1
    /\ Cardinality(NowDeprecated(DeprecatedArg)) = 1

C31_PollingIsBounded ==
    /\ v_log.polls <= max_attempts
    /\ v_log.slept = poll_delay * (IF v_pc = "poll" THEN v_log.polls + 1 ELSE v_log.polls)
    /\ v_pc = "poll" => v_log.polls = v_attempt
    /\ (v_log.last = "not_ready" /\ v_pc # "returned") => v_pc \in {"sleep", "poll"}
    /\ v_pc = "returned" =>
          /\ v_result \in {"text", "None", "raised"}
          /\ v_result = "text" <=> v_log.last = "ready"
          /\ v_result = "raised" <=> v_log.image = "data_uri_no_comma"
          /\ v_log.last = "not_ready" => v_log.polls = max_attempts
          /\ v_result = "raised" => v_log.polls = 0

\* C31 witness: sixty polls were answered "not ready", 120 seconds were
\* slept, and the call returned None.
C31_Witness ==
    /\ v_pc = "returned"
    /\ v_log.polls = 60
    /\ v_log.slept = 120
    /\ v_log.last = "not_ready"
    /\ v_result = "None"

\* the seconds the claim gives for the wait after a failed attempt k that
\* is not the last: 2, 4, 8, 16, then 30
ClaimedWait(k) == IF k = 1 THEN 2 ELSE IF k = 2 THEN 4 ELSE IF k = 3 THEN 8
                  ELSE IF k = 4 THEN 16 ELSE 30

\* C32: _connect_to_browserless_with_retry makes at most max_retries
\* attempts, numbered from 1; attempt k uses the timeout initial_timeout +
\* (k-1)*30000 ms; after a failed attempt k < max_retries it waits
\* min(2^k, 30) seconds, after the last failed attempt and after a
\* successful one it does not wait; it returns the session on the first
\* success and raises ConnectionError exactly when max_retries attempts
\* have failed.
C32_BackoffSchedule ==
    /\ Len(c_log) <= c_call.max_retries
    /\ \A k \in DOMAIN c_log :
          /\ c_log[k].attempt = k
          /\ c_log[k].timeout = c_call.initial_timeout + (k - 1) * 30000
          /\ c_log[k].ok => (k = Len(c_log) /\ c_log[k].wait = 0)
          /\ (~c_log[k].ok /\ k < c_call.max_retries) => c_log[k].wait = ClaimedWait(k)
          /\ (~c_log[k].ok /\ k = c_call.max_retries) => c_log[k].wait = 0
    /\ c_pc = "attempt" => (Len(c_log) = c_attempt - 1 /\ \A k \in DOMAIN c_log : ~c_log[k].ok)
    /\ c_pc = "returned" =>
          /\ c_result \in {"session", "ConnectionError"}
          /\ c_result = "session" <=> (c_log # <<>> /\ c_log[Len(c_log)].ok)
          /\ c_result = "ConnectionError" <=>
                (Len(c_log) = c_call.max_retries /\ \A k \in DOMAIN c_log : ~c_log[k].ok)

\* C32 witness: seven attempts with initial timeout 60000 ms all failed;
\* the fifth and sixth were followed by the capped wait of 30 seconds, the
\* seventh (timeout 240000 ms) by none, and ConnectionError was raised.
C32_Witness ==
    /\ c_pc = "returned"
    /\ c_call = [max_retries |-> 7, initial_timeout |-> 60000]
    /\ Len(c_log) = 7
    /\ c_log[4].wait = 16
    /\ c_log[5].wait = 30
    /\ c_log[6].wait = 30
    /\ c_log[7] = [attempt |-> 7, timeout |-> 240000, ok |-> FALSE, wait |-> 0]
    /\ c_result = "ConnectionError"

\* the identifiers the source can list
SourceIds == UNION { { rows[i] : i \in DOMAIN rows } : rows \in PageRows }

\* Every page after which scrape() asks for another page added at least
\* one identifier that had not been collected before; the number of page
\* requests of one scrape is at most the number of identifiers of the
\* source plus one.
ContinuedPageAddsAnId ==
    /\ \A i \in 1..(Len(responses) - 1) :
          /\ responses[i].collected \subseteq responses[i + 1].collected
          /\ responses[i].collected # responses[i + 1].collected
    /\ s_pc = "request" =>
          /\ page = Len(responses) + 1
          /\ Cardinality(result_ids(all_results)) >= page - 1
    /\ Len(responses) <= Cardinality(SourceIds) + 1
    /\ CountOf(events, "page") = Len(responses)

\* scrape() is sequential code whose requests have a timeout: a step that
\* can be taken is taken
ScraperLive == ScraperSpec /\ WF_allVars(ScraperNext)

\* C33: scrape() terminates for a source with finitely many identifiers,
\* whatever range text, "Next" links or repeated pages it reports: every
\* page after which pagination continues adds at least one identifier not
\* collected before, and a scrape that was started returns or raises.
C33_ScrapeTerminates ==
    /\ []ContinuedPageAddsAnId
    /\ (s_pc \in {"request", "enrich"}) ~> (s_pc \in {"returned", "raised"})

\* C33 witness: the source listed both identifiers on two pages that say
\* there is a next page and then repeated them; scrape() returned after
\* the third page request.
C33_Witness ==
    /\ s_pc = "returned"
    /\ Len(responses) = 3
    /\ responses[3].collected = SourceIds
    /\ responses[3].rows # <<>>
    /\ has_next_page(responses[3].divs)
    /\ result_ids(all_results) = SourceIds

\* no two records of the table carry the same "TTB ID" number
OneRecordPerId(tbl) ==
    \A i \in DOMAIN tbl : \A j \in DOMAIN tbl : tbl[i].ttb = tbl[j].ttb => i = j

\* the scrape lists no identifier twice, leading zeros disregarded
ListedOnce(its) ==
    \A i \in DOMAIN its : \A j \in DOMAIN its :
        int(its[i].ttb_id) = int(its[j].ttb_id) => i = j

\* C34, as claimed: during and after an incremental run, also one in which
\* get_existing_ids() failed, storage holds at most one record per
\* identifier (stated for the first run on a table with one record per
\* identifier and a scrape that lists every identifier once).
C34_OneRecordPerIdentifier ==
    (runs = 1 /\ strategy = "incremental" /\ OneRecordPerId(table0) /\ ListedOnce(items))
        => OneRecordPerId(table)

\* the numbers of the identifiers in the source's complete result set
SourceNumbers == { int(source[i]) : i \in DOMAIN source }

\* C35, as claimed: an incremental run hands to mark_as_deprecated only
\* identifiers that the source's complete result set does not list, also
\* when a page request answered with a status other than 200 and scrape()
\* returned the pages before it (leading zeros disregarded).
C35_DeprecatesOnlyAbsent ==
    strategy = "incremental" =>
        \A id \in DeprecatedArg : int(id) \notin SourceNumbers

\* the numbers of the identifiers this run scraped
ScrapedNumbers == { int(items[i].ttb_id) : i \in DOMAIN items }

\* every scraped identifier is written as storage returns it: str(int(id)) = id
Canonical(its) == \A i \in DOMAIN its : str(int(its[i].ttb_id)) = its[i].ttb_id

\* C36, as claimed: when an incremental run with a non-empty scrape has
\* completed, a stored record is flagged deprecated exactly when its
\* identifier is absent from that run's scrape; a record flagged by an
\* earlier run whose identifier the source lists again is not flagged any
\* more. Stated for runs of the incremental strategy none of whose requests
\* failed, on a table with one record per identifier, and for identifiers
\* without leading zeros.
C36_FlagFollowsLastScrape ==
    (/\ strategy = "incremental" /\ pc = "done" /\ items # <<>> /\ clean
     /\ (prev.strategy = "none" \/ (prev.strategy = "incremental" /\ prev.clean))
     /\ Canonical(items) /\ OneRecordPerId(table)) =>
        \A i \in DOMAIN table :
            table[i].deprecated <=> (table[i].ttb \notin ScrapedNumbers)

\* the statistics of a run that did nothing
ZeroStats ==
    IF strategy = "incremental"
    THEN [total |-> 0, new |-> 0, skipped |-> 0, deprecated |-> 0]
    ELSE [total |-> 0, new |-> 0, updated |-> 0]

\* C37: when scrape() returned an empty list in a run of the incremental or
\* the full strategy, sync() returns statistics that are all zero and the
\* scrape is the run's only collaborator call: storage is neither read nor
\* written.
C37_EmptyScrapeNoStorageCall ==
    (strategy \in {"incremental", "full"} /\ CallsOf("scrape") # <<>> /\ items = <<>>) =>
        /\ pc \in {"done", "idle"}
        /\ stats = ZeroStats
        /\ Len(calls) = 1
        /\ table = table0

\* C37 witness: an incremental run on a table with records scraped nothing
\* and returned.
C37_Witness ==
    /\ strategy = "incremental"
    /\ pc = "done"
    /\ CallsOf("scrape") # <<>>
    /\ items = <<>>
    /\ get_existing_ids(table0) # {}

\* the positions of the records flagged deprecated
Flagged(tbl) == { i \in DOMAIN tbl : tbl[i].deprecated }

\* C38: when create_items raised in a run of the incremental strategy, the
\* exception leaves sync(): the run ends raised, mark_as_deprecated is not
\* called, no record gets the deprecation flag and no statistics are
\* returned.
C38_CreateFailurePropagates ==
    (/\ strategy = "incremental"
     /\ CallsOf("create_items") # <<>>
     /\ ~CallsOf("create_items")[1].ok) =>
        /\ pc \in {"raised", "idle"}
        /\ pc = "idle" => prev.result = "raised"
        /\ calls[Len(calls)].op = "create_items"
        /\ CallsOf("mark_as_deprecated") = <<>>
        /\ Flagged(table) = Flagged(table0)
        /\ stats = NoStats

\* C38 witness: create_items raised in an incremental run that had stored
\* identifiers to deprecate, and the run is over.
C38_Witness ==
    /\ strategy = "incremental"
    /\ pc = "raised"
    /\ CallsOf("create_items") # <<>>
    /\ ~CallsOf("create_items")[1].ok
    /\ deprecated_ids_of(existing_ids, scraped_ids_of(items)) # {}

\* _upload_pdf_to_fields was called in this update_item call, on the record
\* as table.update left it, and has returned
UploadReturned ==
    /\ a_call.op = "update_item"
    /\ a_pc = "returned"
    /\ a_log.fetches = 1
    /\ result = "pdf"

\* C39, as claimed: when _upload_pdf_to_fields has returned for a record
\* that had an attachment in "Latest COLA", the field holds exactly one
\* attachment, whether the call returned True or False, and when it
\* returned True "COLA" holds exactly one attachment more than before.
C39_LatestColaNeverEmpty ==
    (UploadReturned /\ a_log.before.rec.latest = 1) =>
        /\ a_store.rec.latest = 1
        /\ a_log.uploads = 1 => a_store.rec.cola = a_log.before.rec.cola + 1

\* C40: in a create_items call that fetches documents, while no browser
\* connection has been made no batch_create request is sent; when the
\* connection is not established the call raises and storage holds the
\* records it held before the call, and no document was fetched.
C40_NoConnectionNoRecord ==
    (a_call.op = "create_items" /\ a_call.docs /\ a_call.n > 0 /\ a_log.opens = 0) =>
        /\ a_pc \in {"connect", "raised"}
        /\ a_pc = "raised" => a_return = Raised
        /\ a_log.batches = <<>>
        /\ a_store.records = a_log.before.records
        /\ a_log.fetches = 0
        /\ a_log.closes = 0

\* C40 witness: create_items with documents for eleven items on a table
\* with a record raised because the browser connection was not made.
C40_Witness ==
    /\ a_call.op = "create_items"
    /\ a_call.docs
    /\ a_call.n = 11
    /\ a_pc = "raised"
    /\ a_return = Raised
    /\ a_log.opens = 0
    /\ a_log.before.records = 1

====
